---- MODULE Spec2Model ----
(***************************************************************************)
(* A model of the llmgateway request engine and its accounting pipeline    *)
(* (packages/models/src/models.ts): the log-queue worker (processLogQueue, *)
(* startWorker), the auto top-up loop (processAutoTopUp with its table     *)
(* lock) and the chat-completions handler (outcomes, SSE events, insertLog *)
(* calls).  Each subsystem has its own specification over its own          *)
(* variables; the other subsystems' variables stay unchanged.              *)
(***************************************************************************)
EXTENDS Integers, Sequences, FiniteSets, TLC

VARIABLES
    \* ---- log queue worker ----
    mainQ,           \* LOG_QUEUE, index 1 = head (newest)
    procQ,           \* LOG_PROCESSING_QUEUE, index 1 = head (last claimed)
    enqueued,        \* messages that were ever pushed to LOG_QUEUE
    logRows,         \* rows of table `log` per message (requestId)
    credits,         \* organization.credits
    debited,         \* how often a message's cost was subtracted from credits
    wpc,             \* position of the worker inside startWorker/processLogQueue
    messages,        \* processLogQueue's local `messages` (claimed batch)
    updates,         \* creditUpdates entries not yet applied
    lastOutcome,     \* how the last pass (or startup recovery) ended
    faults,          \* injected failures so far
    creditsAtClaim,  \* organization.credits as they were when the batch was claimed
    uniqueRequestId, \* schema: does table `log` reject a second row of a requestId
    conflictSeen,    \* an insert was rejected because of a requestId conflict
    \* ---- auto top-up loop ----
    now,             \* wall clock, in minutes
    lockRows,        \* table `lock`: updatedAt of the auto_topup_check row, if any
    txs,             \* table `transaction` (type credit_topup), in insertion order
    tpc,             \* position of each worker process inside processAutoTopUp
    todo,            \* filteredOrgs not yet handled by the process's for loop
    cur,             \* index of the process's pendingTransaction (0: none)
    seen,            \* what the process's recentTransaction lookup returned
    call,            \* how far the process's current/last processAutoTopUp call got
    tfaults,         \* injected exceptions so far
    threw,           \* an organization's handling threw in the running pass
    \* ---- chat-completions handler ----
    hpc,             \* position of the request inside the handler
    stream,          \* the request's `stream` flag
    shortPrompt,     \* the messages are so short that length / 4 rounds to 0
    usedProvider,    \* the provider chosen by routing
    requestCanBeCanceled, \* the provider's metadata has cancellation = true
    response,        \* what the client got: a status, json200, sse, or a throw
    sse,             \* SSE events written to the client, in order
    insertLogCalls,  \* number of insertLog calls of the request
    promptTokens,    \* streaming callback's locals
    completionTokens,
    totalTokens,
    fullContent,     \* fullContent is not empty
    finishReason,    \* finishReason is set
    canceled,
    reads,           \* upstream chunks read so far
    cache,           \* caching enabled, entry stored, lookups and writes done
    upstreamCalls,   \* requests sent to the provider
    clientGone,      \* the client closed the connection
    upstreamAborted, \* controller.abort() was called
    logRow,          \* the row of the request's last insertLog call
    reported,        \* did upstream ever report a prompt / completion count
    tokenSource,     \* where the current promptTokens / completionTokens come from
    upstreamStatus,  \* res.status of an upstream answer that is not ok, else 0
    errorType,       \* error.type and error.code of the error body or event
    bufferDropped,   \* the read loop cleared its buffer at least once
    \* ---- chunks written to the client ----
    chunkIn,         \* the upstream chunk being transformed
    chunkOut,        \* choices[0].delta of the chunk written to the client
    \* ---- admission of a request: model, authentication, routing, credentials ----
    apc,             \* position of the handler before the upstream call
    header,          \* the Authorization header of the request
    modelInput,      \* the model field and what the gates find for it
    mode,            \* project.mode
    storedKeys,      \* providers with an active provider key of the organization
    envProviders,    \* providers with a token in the environment
    orgCredits,      \* organization.credits as read by the handler
    deprecated,      \* catalog models past their deprecatedAt
    availableProviders, \* the routing step's availableProviders
    routed,          \* usedProvider and usedModel after routing
    tokenFrom,       \* where usedToken comes from
    httpStatus,      \* the HTTP status of the answer
    rejectedAt,      \* the stage that rejected the request
    cacheLookup,     \* the cache stage was reached
    dispatched,      \* the request was sent upstream
    maxTokens,       \* max_tokens of the request, as the gate reads it
    \* ---- finish reasons ----
    finishIn,        \* the upstream response or chunk carrying a finish reason
    finishOut,       \* choices[0].finish_reason handed to the client
    \* ---- tool calls accumulated from a stream ----
    fullToolCalls,  \* the streaming callback's fullToolCalls (empty = still null)
    deltas, \* every tool-call delta received so far, in arrival order
    \* ---- startWorker and stopWorker calls of one process ----
    isWorkerRunning,  \* the module-level flag isWorkerRunning
    shouldStop,  \* the module-level flag shouldStop
    startPc,  \* position of each startWorker call
    stopPc, \* position of each stopWorker call
    \* ---- two worker processes on one pair of queues ----
    sharedMainQ,  \* LOG_QUEUE as both workers see it
    sharedProcQ,  \* LOG_PROCESSING_QUEUE as both workers see it
    pushed,  \* messages pushed to LOG_QUEUE so far
    workerPc,  \* position of each worker inside processLogQueue
    claimed,  \* each worker's local messages
    persisted  \* messages whose rows were inserted

workerVars == <<mainQ, procQ, enqueued, logRows, credits, debited, wpc,
                messages, updates, lastOutcome, faults, uniqueRequestId,
                conflictSeen, creditsAtClaim>>

topupVars == <<now, lockRows, txs, tpc, todo, cur, seen, call, tfaults,
               threw>>

handlerVars == <<hpc, stream, shortPrompt, usedProvider, requestCanBeCanceled,
                 response, sse, insertLogCalls, promptTokens, completionTokens,
                 totalTokens, fullContent, finishReason, canceled, reads,
                 cache, upstreamCalls, clientGone, upstreamAborted, logRow,
                 reported, tokenSource, upstreamStatus, errorType,
                 bufferDropped>>

chunkVars == <<chunkIn, chunkOut>>

admissionVars == <<apc, header, modelInput, mode, storedKeys, envProviders,
                   orgCredits, deprecated, availableProviders, routed,
                   tokenFrom, httpStatus, rejectedAt, cacheLookup, dispatched,
                   maxTokens>>

finishVars == <<finishIn, finishOut>>

toolVars == <<fullToolCalls, deltas>>

lifecycleVars == <<isWorkerRunning, shouldStop, startPc, stopPc>>

pairVars == <<sharedMainQ, sharedProcQ, pushed, workerPc, claimed, persisted>>

vars == <<workerVars, topupVars, handlerVars, chunkVars, admissionVars,
          finishVars,
          toolVars,
          lifecycleVars,
          pairVars>>

\* what the actions of one subsystem leave alone
nonWorkerVars == <<topupVars, handlerVars, chunkVars, admissionVars, finishVars,
          toolVars,
          lifecycleVars,
          pairVars>>

nonTopUpVars == <<workerVars, handlerVars, chunkVars, admissionVars, finishVars,
          toolVars,
          lifecycleVars,
          pairVars>>

nonHandlerVars == <<workerVars, topupVars, chunkVars, admissionVars, finishVars,
          toolVars,
          lifecycleVars,
          pairVars>>

nonChunkVars == <<workerVars, topupVars, handlerVars, admissionVars, finishVars,
          toolVars,
          lifecycleVars,
          pairVars>>

nonAdmissionVars == <<workerVars, topupVars, handlerVars, chunkVars, finishVars,
          toolVars,
          lifecycleVars,
          pairVars>>

nonFinishVars == <<workerVars, topupVars, handlerVars, chunkVars, admissionVars,
          toolVars,
          lifecycleVars,
          pairVars>>

nonToolVars == <<workerVars, topupVars, handlerVars, chunkVars, admissionVars, finishVars,
          lifecycleVars,
          pairVars>>

nonLifecycleVars == <<workerVars, topupVars, handlerVars, chunkVars, admissionVars, finishVars, toolVars,
          pairVars>>

nonPairVars == <<workerVars, topupVars, handlerVars, chunkVars, admissionVars, finishVars, toolVars, lifecycleVars>>

(***************************************************************************)
(* Bounds of the model.                                                    *)
(***************************************************************************)
NumMsgs == 3
MaxFaults == 2
MaxTopUpFaults == 1
MaxTime == 90
TickMinutes == 30
MaxTx == 2
MaxReads == 3

(***************************************************************************)
(* Generic helpers on sequences.                                           *)
(***************************************************************************)
Range(s) == {s[i] : i \in 1..Len(s)}

Reverse(s) == [i \in 1..Len(s) |-> s[Len(s) + 1 - i]]

Min(a, b) == IF a < b THEN a ELSE b

(***************************************************************************)
(* The queue messages the worker is fed.  A message is a serialized        *)
(* LogInsertData; message 2 is a corrupt payload JSON.parse rejects.       *)
(***************************************************************************)
Msgs == 1..NumMsgs

\* the largest id of a message found in the queue when the worker starts
MaxMsgId == 7

\* the longest queue found when the worker starts
MaxBatchLen == 4

\* every message the datastore may hold a row for
AllMsgs == Msgs \cup (1..MaxMsgId)

OrgIds == {"orgA", "orgB"}

Parseable(m) == m # 2

MsgOrg(m) == IF m % 4 = 3 THEN "orgB" ELSE "orgA"

MsgCost(m) == IF m % 4 = 1 THEN 2 ELSE IF m % 4 = 3 THEN 1 ELSE IF m % 4 = 0 THEN 3 ELSE 0

MsgCached(m) == m % 8 = 5

\* project.mode of the message's projectId, as getProject returns it
MsgMode(m) == IF m % 4 = 0 THEN "api-keys" ELSE IF m % 4 = 3 THEN "hybrid" ELSE "credits"

InitialCredits == 10

BATCH_SIZE == 10

(***************************************************************************)
(* lib/redis queue primitives (their code is not part of the sources at    *)
(* hand; modelled from the specification's description, section 4.10).     *)
(***************************************************************************)
\* "atomically move up to N messages from main -> processing"
ClaimCount(q, n) == Min(Len(q), n)

MovedPart(q, n) == SubSeq(q, Len(q) - ClaimCount(q, n) + 1, Len(q))

\* "remove the batch from processing": the batch sits at the head
RemoveFromProcessingQueue(q, count) == SubSeq(q, Min(count, Len(q)) + 1, Len(q))

\* "messages still in the processing queue are atomically moved back to main"
RecoverInto(pq, mq) == pq \o mq

(***************************************************************************)
(* processLogQueue helpers.                                                *)
(***************************************************************************)
\* parseResults.filter(r => r.data)
ValidMessages(msgs) == SelectSeq(msgs, Parseable)

\* a plausible slip: the credit loop without the project mode test
BillableIgnoresMode(m) == MsgCost(m) # 0 /\ ~MsgCached(m)

\* `if (!data.cost || data.cached) continue;` and the project mode test
BillableRow(cost, cached, projectMode) ==
    cost # 0 /\ ~cached /\ projectMode # "api-keys"

\* the rows the credit loop adds to creditUpdates
Billable(m) == BillableRow(MsgCost(m), MsgCached(m), MsgMode(m))

BillableSeq(logData) == SelectSeq(logData, Billable)

RECURSIVE SumFor(_, _)
SumFor(org, logData) ==
    IF logData = <<>> THEN 0
    ELSE (IF MsgOrg(Head(logData)) = org THEN MsgCost(Head(logData)) ELSE 0)
         + SumFor(org, Tail(logData))

RECURSIVE OrgOrder(_, _)
\* organizations in the Map's insertion order
OrgOrder(logData, have) ==
    IF logData = <<>> THEN <<>>
    ELSE IF MsgOrg(Head(logData)) \in have THEN OrgOrder(Tail(logData), have)
    ELSE <<MsgOrg(Head(logData))>> \o OrgOrder(Tail(logData), have \cup {MsgOrg(Head(logData))})

\* creditUpdates: one entry per organization, carrying the messages it sums
CreditUpdates(logData) ==
    LET b == BillableSeq(logData)
        orgs == OrgOrder(b, {})
    IN [i \in 1..Len(orgs) |->
          [org |-> orgs[i],
           total |-> SumFor(orgs[i], b),
           msgs |-> {b[j] : j \in {k \in 1..Len(b) : MsgOrg(b[k]) = orgs[i]}}]]

\* db.insert(log).values(...) has no conflict clause: with a unique requestId
\* the statement is rejected when one of its rows exists already
InsertConflicts(logData) ==
    uniqueRequestId /\ \E m \in Range(logData) : logRows[m] > 0

\* a plausible slip: acknowledge only as many messages as were parseable
AckCountValidOnly(msgs) == Len(ValidMessages(msgs))

\* removeFromProcessingQueue(LOG_PROCESSING_QUEUE, messages.length)
AckCount(msgs) == Len(msgs)

CanFail == faults < MaxFaults

(***************************************************************************)
(* Initial state: nothing queued, the worker not started.                  *)
(***************************************************************************)
InitWorker ==
    /\ mainQ = <<>>
    /\ procQ = <<>>
    /\ enqueued = {}
    /\ logRows = [m \in AllMsgs |-> 0]
    /\ credits = [o \in OrgIds |-> InitialCredits]
    /\ debited = [m \in AllMsgs |-> 0]
    /\ wpc = "down"
    /\ messages = <<>>
    /\ updates = <<>>
    /\ lastOutcome = "none"
    /\ faults = 0
    /\ uniqueRequestId \in BOOLEAN
    /\ conflictSeen = FALSE
    /\ creditsAtClaim = [o \in OrgIds |-> InitialCredits]

(***************************************************************************)
(* Worker actions.                                                         *)
(***************************************************************************)
\* insertLog of the handler: the serialized row is pushed to LOG_QUEUE
Enqueue(m) ==
    /\ m \notin enqueued
    /\ enqueued' = enqueued \cup {m}
    /\ mainQ' = <<m>> \o mainQ
    /\ UNCHANGED <<procQ, logRows, credits, debited, wpc, messages, updates,
                   lastOutcome, faults, uniqueRequestId, conflictSeen>>
    /\ UNCHANGED creditsAtClaim
    /\ UNCHANGED nonWorkerVars

\* startWorker: recover what a dead worker left in the processing queue
StartWorkerRecovered ==
    /\ wpc = "down"
    /\ mainQ' = RecoverInto(procQ, mainQ)
    /\ procQ' = <<>>
    /\ wpc' = "idle"
    /\ lastOutcome' = "startup"
    /\ UNCHANGED <<enqueued, logRows, credits, debited, messages, updates,
                   faults, uniqueRequestId, conflictSeen>>
    /\ UNCHANGED creditsAtClaim
    /\ UNCHANGED nonWorkerVars

\* startWorker: the startup recovery throws, the error is logged, the loop starts
StartWorkerRecoveryFailed ==
    /\ wpc = "down"
    /\ CanFail
    /\ faults' = faults + 1
    /\ wpc' = "idle"
    /\ lastOutcome' = "startupFailed"
    /\ UNCHANGED <<mainQ, procQ, enqueued, logRows, credits, debited, messages,
                   updates, uniqueRequestId, conflictSeen>>
    /\ UNCHANGED creditsAtClaim
    /\ UNCHANGED nonWorkerVars

\* the process dies at any point; locals are lost, the queues and tables stay
Crash ==
    /\ wpc # "down"
    /\ CanFail
    /\ faults' = faults + 1
    /\ wpc' = "down"
    /\ messages' = <<>>
    /\ updates' = <<>>
    /\ UNCHANGED <<mainQ, procQ, enqueued, logRows, credits, debited,
                   lastOutcome, uniqueRequestId, conflictSeen>>
    /\ UNCHANGED creditsAtClaim
    /\ UNCHANGED nonWorkerVars

\* moveToProcessingQueue returned null: the pass ends at once
ClaimNothing ==
    /\ wpc = "idle"
    /\ mainQ = <<>>
    /\ lastOutcome' = "empty"
    /\ messages' = <<>>
    /\ UNCHANGED <<mainQ, procQ, enqueued, logRows, credits, debited, wpc,
                   updates, faults, uniqueRequestId, conflictSeen>>
    /\ UNCHANGED creditsAtClaim
    /\ UNCHANGED nonWorkerVars

\* moveToProcessingQueue(LOG_QUEUE, LOG_PROCESSING_QUEUE, 10)
ClaimBatch ==
    /\ wpc = "idle"
    /\ mainQ # <<>>
    /\ messages' = Reverse(MovedPart(mainQ, BATCH_SIZE))
    /\ procQ' = MovedPart(mainQ, BATCH_SIZE) \o procQ
    /\ mainQ' = SubSeq(mainQ, 1, Len(mainQ) - ClaimCount(mainQ, BATCH_SIZE))
    /\ wpc' = "claimed"
    /\ lastOutcome' = "running"
    /\ creditsAtClaim' = credits
    /\ UNCHANGED <<enqueued, logRows, credits, debited, updates, faults,
                   uniqueRequestId, conflictSeen>>
    /\ UNCHANGED nonWorkerVars

\* validMessages.length === 0: remove them all and return
AllInvalid ==
    /\ wpc = "claimed"
    /\ ValidMessages(messages) = <<>>
    /\ procQ' = RemoveFromProcessingQueue(procQ, AckCount(messages))
    /\ wpc' = "idle"
    /\ lastOutcome' = "allInvalid"
    /\ UNCHANGED <<mainQ, enqueued, logRows, credits, debited, messages,
                   updates, faults, uniqueRequestId, conflictSeen>>
    /\ UNCHANGED creditsAtClaim
    /\ UNCHANGED nonWorkerVars

\* the removal of an all-invalid batch throws
AllInvalidRemoveFails ==
    /\ wpc = "claimed"
    /\ ValidMessages(messages) = <<>>
    /\ CanFail
    /\ faults' = faults + 1
    /\ wpc' = "catch"
    /\ UNCHANGED <<mainQ, procQ, enqueued, logRows, credits, debited, messages,
                   updates, lastOutcome, uniqueRequestId, conflictSeen>>
    /\ UNCHANGED creditsAtClaim
    /\ UNCHANGED nonWorkerVars

\* await db.insert(log).values(processedLogData) succeeds; creditUpdates is built
InsertLogs ==
    /\ wpc = "claimed"
    /\ ValidMessages(messages) # <<>>
    /\ ~InsertConflicts(ValidMessages(messages))
    /\ logRows' = [m \in AllMsgs |->
                     IF m \in Range(ValidMessages(messages)) THEN logRows[m] + 1
                     ELSE logRows[m]]
    /\ updates' = CreditUpdates(ValidMessages(messages))
    /\ wpc' = "credits"
    /\ UNCHANGED <<mainQ, procQ, enqueued, credits, debited, messages,
                   lastOutcome, faults, uniqueRequestId, conflictSeen>>
    /\ UNCHANGED creditsAtClaim
    /\ UNCHANGED nonWorkerVars

\* the insert is rejected by the requestId constraint: nothing is inserted
InsertRejected ==
    /\ wpc = "claimed"
    /\ ValidMessages(messages) # <<>>
    /\ InsertConflicts(ValidMessages(messages))
    /\ conflictSeen' = TRUE
    /\ wpc' = "catch"
    /\ UNCHANGED <<mainQ, procQ, enqueued, logRows, credits, debited, messages,
                   updates, lastOutcome, faults, uniqueRequestId>>
    /\ UNCHANGED creditsAtClaim
    /\ UNCHANGED nonWorkerVars

\* getOrganization or the insert throws (datastore error): nothing is inserted
InsertFails ==
    /\ wpc = "claimed"
    /\ ValidMessages(messages) # <<>>
    /\ CanFail
    /\ faults' = faults + 1
    /\ wpc' = "catch"
    /\ UNCHANGED <<mainQ, procQ, enqueued, logRows, credits, debited, messages,
                   updates, lastOutcome, uniqueRequestId, conflictSeen>>
    /\ UNCHANGED creditsAtClaim
    /\ UNCHANGED nonWorkerVars

\* one `credits = credits - totalCost` update of the batch
ApplyCreditUpdate ==
    /\ wpc = "credits"
    /\ updates # <<>>
    /\ credits' = [credits EXCEPT ![Head(updates).org] = @ - Head(updates).total]
    /\ debited' = [m \in AllMsgs |->
                     IF m \in Head(updates).msgs THEN debited[m] + 1 ELSE debited[m]]
    /\ updates' = Tail(updates)
    /\ UNCHANGED <<mainQ, procQ, enqueued, logRows, wpc, messages, lastOutcome,
                   faults, uniqueRequestId, conflictSeen>>
    /\ UNCHANGED creditsAtClaim
    /\ UNCHANGED nonWorkerVars

\* getProject or a credit update throws
CreditUpdateFails ==
    /\ wpc = "credits"
    /\ updates # <<>>
    /\ CanFail
    /\ faults' = faults + 1
    /\ updates' = <<>>
    /\ wpc' = "catch"
    /\ UNCHANGED <<mainQ, procQ, enqueued, logRows, credits, debited, messages,
                   lastOutcome, uniqueRequestId, conflictSeen>>
    /\ UNCHANGED creditsAtClaim
    /\ UNCHANGED nonWorkerVars

\* removeFromProcessingQueue after successful processing
Acknowledge ==
    /\ wpc = "credits"
    /\ updates = <<>>
    /\ procQ' = RemoveFromProcessingQueue(procQ, AckCount(messages))
    /\ wpc' = "idle"
    /\ lastOutcome' = "ok"
    /\ UNCHANGED <<mainQ, enqueued, logRows, credits, debited, messages,
                   updates, faults, uniqueRequestId, conflictSeen>>
    /\ UNCHANGED creditsAtClaim
    /\ UNCHANGED nonWorkerVars

\* the final removal throws
AcknowledgeFails ==
    /\ wpc = "credits"
    /\ updates = <<>>
    /\ CanFail
    /\ faults' = faults + 1
    /\ wpc' = "catch"
    /\ UNCHANGED <<mainQ, procQ, enqueued, logRows, credits, debited, messages,
                   updates, lastOutcome, uniqueRequestId, conflictSeen>>
    /\ UNCHANGED creditsAtClaim
    /\ UNCHANGED nonWorkerVars

\* a plausible slip: the catch block acknowledges the batch instead of recovering it
CatchDropsBatch ==
    /\ wpc = "catch"
    /\ procQ' = RemoveFromProcessingQueue(procQ, AckCount(messages))
    /\ wpc' = "idle"
    /\ lastOutcome' = "recovered"
    /\ UNCHANGED <<mainQ, enqueued, logRows, credits, debited, messages,
                   updates, faults, uniqueRequestId, conflictSeen>>
    /\ UNCHANGED creditsAtClaim
    /\ UNCHANGED nonWorkerVars

\* catch: recoverProcessingQueue moves the processing queue back to main
CatchRecover ==
    /\ wpc = "catch"
    /\ mainQ' = RecoverInto(procQ, mainQ)
    /\ procQ' = <<>>
    /\ wpc' = "idle"
    /\ lastOutcome' = "recovered"
    /\ UNCHANGED <<enqueued, logRows, credits, debited, messages, updates,
                   faults, uniqueRequestId, conflictSeen>>
    /\ UNCHANGED creditsAtClaim
    /\ UNCHANGED nonWorkerVars

\* a plausible slip: the inner catch rethrows and the error ends the worker
CatchRecoverFailsStopsWorker ==
    /\ wpc = "catch"
    /\ CanFail
    /\ faults' = faults + 1
    /\ wpc' = "down"
    /\ lastOutcome' = "recoverFailed"
    /\ UNCHANGED <<mainQ, procQ, enqueued, logRows, credits, debited, messages,
                   updates, uniqueRequestId, conflictSeen>>
    /\ UNCHANGED creditsAtClaim
    /\ UNCHANGED nonWorkerVars

\* catch: recoverProcessingQueue throws too; the messages stay where they are
CatchRecoverFails ==
    /\ wpc = "catch"
    /\ CanFail
    /\ faults' = faults + 1
    /\ wpc' = "idle"
    /\ lastOutcome' = "recoverFailed"
    /\ UNCHANGED <<mainQ, procQ, enqueued, logRows, credits, debited, messages,
                   updates, uniqueRequestId, conflictSeen>>
    /\ UNCHANGED creditsAtClaim
    /\ UNCHANGED nonWorkerVars

\* the steps of the worker process itself
WorkerPass ==
    \/ StartWorkerRecovered
    \/ StartWorkerRecoveryFailed
    \/ ClaimNothing
    \/ ClaimBatch
    \/ AllInvalid
    \/ AllInvalidRemoveFails
    \/ InsertLogs
    \/ InsertRejected
    \/ InsertFails
    \/ ApplyCreditUpdate
    \/ CreditUpdateFails
    \/ Acknowledge
    \/ AcknowledgeFails
    \/ CatchRecover
    \/ CatchRecoverFails
    \/ Crash

WorkerStep ==
    \/ \E m \in Msgs : Enqueue(m)
    \/ WorkerPass

(***************************************************************************)
(* Claims about the log queue worker.                                      *)
(***************************************************************************)
InQueues(m) == m \in Range(mainQ) \/ m \in Range(procQ)

\* a message is settled once it is logged, out of both queues, and no pass runs
Settled(m) == wpc = "idle" /\ logRows[m] > 0 /\ ~InQueues(m)

PassEnded == wpc = "idle" /\ lastOutcome \in {"ok", "allInvalid", "recovered", "recoverFailed"}

\* C2: every billable message (cached=false, cost non-zero, project mode not
\* api-keys) decrements organization.credits by its cost exactly once, whatever
\* failures and recoveries happen: never twice, and once by the time the
\* message is settled.
C2_DebitedExactlyOnce ==
    \A m \in enqueued :
        (Parseable(m) /\ Billable(m)) =>
            /\ debited[m] <= 1
            /\ Settled(m) => debited[m] = 1

\* C3: no parseable message is ever lost: each enqueued message is in the main
\* queue, in the processing queue, or has a row in the log table (so a message
\* leaves the processing queue only towards main or after its insert).
C3_NoParseableMessageLost ==
    \A m \in enqueued :
        Parseable(m) => (InQueues(m) \/ logRows[m] > 0)

\* C3 witness: after failures and a recovery a message ended logged and acknowledged
C3_Witness ==
    /\ wpc = "idle"
    /\ lastOutcome = "ok"
    /\ faults > 0
    /\ \E m \in enqueued : Parseable(m) /\ logRows[m] > 0 /\ ~InQueues(m)

\* C4: persisting a message again after its batch was recovered leaves exactly
\* one log row for its requestId, and the repeated insert does not fail the
\* batch on a requestId conflict.
C4_OneRowPerRequestId ==
    /\ ~conflictSeen
    /\ \A m \in Msgs : logRows[m] <= 1

Procs == {"w1", "w2"}

LOCK_DURATION_MINUTES == 10

HOUR_MINUTES == 60

NoTx == [found |-> FALSE, recent |-> FALSE, status |-> "none"]

\* the orders in which findMany + filter may hand over the organizations
OrgLists == {<<>>, <<"orgA">>, <<"orgB">>, <<"orgA", "orgB">>}

TCanFail == tfaults < MaxTopUpFaults

\* lt(lock.updatedAt, lockExpiry), lockExpiry = now - LOCK_DURATION_MINUTES
Stale(updatedAt, t) == updatedAt < t - LOCK_DURATION_MINUTES

\* the rows acquireLock's DELETE removes
StaleRows(rows, t) == {u \in rows : Stale(u, t)}

\* indexes of the organization's credit_topup transactions
TxOf(org) == {i \in 1..Len(txs) : txs[i].org = org}

\* findFirst(... orderBy createdAt desc): a transaction of the organization
\* with the greatest createdAt
MostRecent(org) ==
    {i \in TxOf(org) : \A j \in TxOf(org) : txs[j].createdAt <= txs[i].createdAt}

\* a plausible slip: only a pending recent transaction makes the loop skip
BlocksTopUpPendingOnly(tx, t) ==
    /\ tx.createdAt > t - HOUR_MINUTES
    /\ tx.status = "pending"

\* recentTransaction within the last hour and pending or failed: skip
BlocksTopUp(tx, t) ==
    /\ tx.createdAt > t - HOUR_MINUTES
    /\ tx.status \in {"pending", "failed"}

InitTopUp ==
    /\ now = 0
    /\ lockRows = {}
    /\ txs = <<>>
    /\ tpc = [p \in Procs |-> "idle"]
    /\ todo = [p \in Procs |-> <<>>]
    /\ cur = [p \in Procs |-> 0]
    /\ seen = [p \in Procs |-> NoTx]
    /\ call = [p \in Procs |-> "none"]
    /\ tfaults = 0
    /\ threw = [p \in Procs |-> FALSE]

\* time passes
Tick ==
    /\ now + TickMinutes <= MaxTime
    /\ now' = now + TickMinutes
    /\ UNCHANGED <<lockRows, txs, tpc, todo, cur, seen, call, tfaults>>
    /\ UNCHANGED threw
    /\ UNCHANGED nonTopUpVars

\* acquireLock: delete the row if it is older than the lease
AcquireDeleteStale(p) ==
    /\ tpc[p] = "idle"
    /\ lockRows' = lockRows \ StaleRows(lockRows, now)
    /\ call' = [call EXCEPT ![p] =
                  IF lockRows' = lockRows THEN "deletedNothing"
                  ELSE IF \A u \in lockRows \ lockRows' :
                             u + LOCK_DURATION_MINUTES < now
                       THEN "deletedStale"
                       ELSE "deletedLive"]
    /\ tpc' = [tpc EXCEPT ![p] = "acqInsert"]
    /\ UNCHANGED <<now, txs, todo, cur, seen, tfaults>>
    /\ UNCHANGED threw
    /\ UNCHANGED nonTopUpVars

\* acquireLock: the insert succeeds, the lock is held
AcquireInsert(p) ==
    /\ tpc[p] = "acqInsert"
    /\ lockRows = {}
    /\ lockRows' = {now}
    /\ call' = [call EXCEPT ![p] = "holding"]
    /\ tpc' = [tpc EXCEPT ![p] = "select"]
    /\ UNCHANGED <<now, txs, todo, cur, seen, tfaults>>
    /\ UNCHANGED threw
    /\ UNCHANGED nonTopUpVars

AcquireFailed(p) ==
    /\ call' = [call EXCEPT ![p] =
                  IF @ = "deletedStale" THEN "failedAfterStaleDelete"
                  ELSE IF @ = "deletedLive" THEN "failedAfterLiveDelete"
                  ELSE "failedClean"]
    /\ tpc' = [tpc EXCEPT ![p] = "idle"]

\* acquireLock: the insert hits the existing row: catch, return false
AcquireInsertConflict(p) ==
    /\ tpc[p] = "acqInsert"
    /\ lockRows # {}
    /\ AcquireFailed(p)
    /\ UNCHANGED <<now, lockRows, txs, todo, cur, seen, tfaults>>
    /\ UNCHANGED threw
    /\ UNCHANGED nonTopUpVars

\* acquireLock: the insert throws for another reason: catch, return false
AcquireInsertFails(p) ==
    /\ tpc[p] = "acqInsert"
    /\ TCanFail
    /\ tfaults' = tfaults + 1
    /\ AcquireFailed(p)
    /\ UNCHANGED <<now, lockRows, txs, todo, cur, seen>>
    /\ UNCHANGED threw
    /\ UNCHANGED nonTopUpVars

\* organization.findMany + filter(credits < threshold)
SelectOrgs(p) ==
    /\ tpc[p] = "select"
    /\ \E l \in OrgLists : todo' = [todo EXCEPT ![p] = l]
    /\ tpc' = [tpc EXCEPT ![p] = "loop"]
    /\ UNCHANGED <<now, lockRows, txs, cur, seen, call, tfaults>>
    /\ threw' = [threw EXCEPT ![p] = FALSE]
    /\ UNCHANGED nonTopUpVars

\* a plausible slip: the exception leaves processAutoTopUp without the finally
SelectOrgsThrowsNoFinally(p) ==
    /\ tpc[p] = "select"
    /\ TCanFail
    /\ tfaults' = tfaults + 1
    /\ tpc' = [tpc EXCEPT ![p] = "idle"]
    /\ UNCHANGED <<now, lockRows, txs, todo, cur, seen, call>>
    /\ UNCHANGED threw
    /\ UNCHANGED nonTopUpVars

\* organization.findMany throws: the finally block runs
SelectOrgsThrows(p) ==
    /\ tpc[p] = "select"
    /\ TCanFail
    /\ tfaults' = tfaults + 1
    /\ tpc' = [tpc EXCEPT ![p] = "release"]
    /\ UNCHANGED <<now, lockRows, txs, todo, cur, seen, call>>
    /\ UNCHANGED threw
    /\ UNCHANGED nonTopUpVars

\* the for loop is through
LoopDone(p) ==
    /\ tpc[p] = "loop"
    /\ todo[p] = <<>>
    /\ tpc' = [tpc EXCEPT ![p] = "release"]
    /\ UNCHANGED <<now, lockRows, txs, todo, cur, seen, call, tfaults>>
    /\ threw' = [threw EXCEPT ![p] = FALSE]
    /\ UNCHANGED nonTopUpVars

\* what the process remembers of the transaction it looked up
Lookup(i) == [found |-> TRUE,
              recent |-> txs[i].createdAt + HOUR_MINUTES > now,
              status |-> txs[i].status]

\* transaction.findFirst found a recent pending or failed one: continue
SkipRecent(p) ==
    /\ tpc[p] = "loop"
    /\ todo[p] # <<>>
    /\ \E i \in MostRecent(Head(todo[p])) : BlocksTopUp(txs[i], now)
    /\ todo' = [todo EXCEPT ![p] = Tail(@)]
    /\ UNCHANGED <<now, lockRows, txs, tpc, cur, seen, call, tfaults>>
    /\ UNCHANGED threw
    /\ UNCHANGED nonTopUpVars

\* transaction.findFirst found none, or one that does not block the top-up
PassRecent(p) ==
    /\ tpc[p] = "loop"
    /\ todo[p] # <<>>
    /\ \/ /\ TxOf(Head(todo[p])) = {}
          /\ seen' = [seen EXCEPT ![p] = NoTx]
       \/ \E i \in MostRecent(Head(todo[p])) :
             /\ ~BlocksTopUp(txs[i], now)
             /\ seen' = [seen EXCEPT ![p] = Lookup(i)]
    /\ tpc' = [tpc EXCEPT ![p] = "pm"]
    /\ UNCHANGED <<now, lockRows, txs, todo, cur, call, tfaults>>
    /\ UNCHANGED threw
    /\ UNCHANGED nonTopUpVars

\* a plausible slip: no per-organization try, the exception ends the loop
OrgStepThrowsEndsLoop(p) ==
    /\ tpc[p] \in {"loop", "pm"}
    /\ todo[p] # <<>>
    /\ TCanFail
    /\ tfaults' = tfaults + 1
    /\ seen' = [seen EXCEPT ![p] = NoTx]
    /\ tpc' = [tpc EXCEPT ![p] = "release"]
    /\ UNCHANGED <<now, lockRows, txs, todo, cur, call>>
    /\ threw' = [threw EXCEPT ![p] = TRUE]
    /\ UNCHANGED nonTopUpVars

\* any exception inside the per-organization try (lookups, stripe
\* paymentMethods.retrieve, the insert): logged, next organization
OrgStepThrows(p) ==
    /\ tpc[p] \in {"loop", "pm"}
    /\ todo[p] # <<>>
    /\ TCanFail
    /\ tfaults' = tfaults + 1
    /\ todo' = [todo EXCEPT ![p] = Tail(@)]
    /\ seen' = [seen EXCEPT ![p] = NoTx]
    /\ tpc' = [tpc EXCEPT ![p] = "loop"]
    /\ UNCHANGED <<now, lockRows, txs, cur, call>>
    /\ threw' = [threw EXCEPT ![p] = TRUE]
    /\ UNCHANGED nonTopUpVars

\* no default payment method: continue
NoPaymentMethod(p) ==
    /\ tpc[p] = "pm"
    /\ todo' = [todo EXCEPT ![p] = Tail(@)]
    /\ seen' = [seen EXCEPT ![p] = NoTx]
    /\ tpc' = [tpc EXCEPT ![p] = "loop"]
    /\ UNCHANGED <<now, lockRows, txs, cur, call, tfaults>>
    /\ UNCHANGED threw
    /\ UNCHANGED nonTopUpVars

\* payment method found, fees calculated: insert the pending transaction
\* before creating the payment intent
InsertPending(p) ==
    /\ tpc[p] = "pm"
    /\ Len(txs) < MaxTx
    /\ txs' = Append(txs, [org |-> Head(todo[p]), createdAt |-> now,
                           status |-> "pending", intent |-> "none"])
    /\ cur' = [cur EXCEPT ![p] = Len(txs) + 1]
    /\ tpc' = [tpc EXCEPT ![p] = "intent"]
    /\ UNCHANGED <<now, lockRows, todo, seen, call, tfaults>>
    /\ UNCHANGED threw
    /\ UNCHANGED nonTopUpVars

EndOrg(p) ==
    /\ todo' = [todo EXCEPT ![p] = Tail(@)]
    /\ seen' = [seen EXCEPT ![p] = NoTx]
    /\ cur' = [cur EXCEPT ![p] = 0]
    /\ tpc' = [tpc EXCEPT ![p] = "loop"]

\* paymentIntent.status values that leave the row pending
AcceptedStatuses == {"succeeded", "requires_action"}

\* paymentIntents.create returned succeeded or requires_action: the row stays pending
IntentAccepted(p) ==
    /\ tpc[p] = "intent"
    /\ \E st \in AcceptedStatuses : txs' = [txs EXCEPT ![cur[p]].intent = st]
    /\ EndOrg(p)
    /\ UNCHANGED <<now, lockRows, call, tfaults>>
    /\ UNCHANGED threw
    /\ UNCHANGED nonTopUpVars

\* any other intent status, or a stripe exception: the row is marked failed
IntentFailed(p) ==
    /\ tpc[p] = "intent"
    /\ txs' = [txs EXCEPT ![cur[p]].status = "failed"]
    /\ EndOrg(p)
    /\ UNCHANGED <<now, lockRows, call, tfaults>>
    /\ UNCHANGED threw
    /\ UNCHANGED nonTopUpVars

\* paymentIntents.create returned, the update that stores the intent id throws:
\* catch (stripeError) marks the row failed
IntentIdUpdateThrows(p) ==
    /\ tpc[p] = "intent"
    /\ TCanFail
    /\ tfaults' = tfaults + 1
    /\ \E st \in AcceptedStatuses :
          txs' = [txs EXCEPT ![cur[p]].intent = st, ![cur[p]].status = "failed"]
    /\ EndOrg(p)
    /\ UNCHANGED <<now, lockRows, call>>
    /\ threw' = [threw EXCEPT ![p] = TRUE]
    /\ UNCHANGED nonTopUpVars

\* the update that marks the row failed throws too: per-organization catch
MarkFailedThrows(p) ==
    /\ tpc[p] = "intent"
    /\ TCanFail
    /\ tfaults' = tfaults + 1
    /\ EndOrg(p)
    /\ UNCHANGED <<now, lockRows, txs, call>>
    /\ threw' = [threw EXCEPT ![p] = TRUE]
    /\ UNCHANGED nonTopUpVars

\* the payment webhook settles an accepted intent
WebhookSucceeded(i) ==
    /\ i \in 1..Len(txs)
    /\ txs[i].status = "pending"
    /\ txs[i].intent \in AcceptedStatuses
    /\ txs' = [txs EXCEPT ![i].status = "succeeded"]
    /\ UNCHANGED <<now, lockRows, tpc, todo, cur, seen, call, tfaults>>
    /\ UNCHANGED threw
    /\ UNCHANGED nonTopUpVars

\* finally: releaseLock deletes the row by key
ReleaseLock(p) ==
    /\ tpc[p] = "release"
    /\ lockRows' = {}
    /\ call' = [call EXCEPT ![p] = IF lockRows' = {} THEN "released"
                                   ELSE "releasedRowLeft"]
    /\ tpc' = [tpc EXCEPT ![p] = "idle"]
    /\ UNCHANGED <<now, txs, todo, cur, seen, tfaults>>
    /\ UNCHANGED threw
    /\ UNCHANGED nonTopUpVars

\* finally: the delete of releaseLock throws; the row stays until it is stale
ReleaseLockFails(p) ==
    /\ tpc[p] = "release"
    /\ TCanFail
    /\ tfaults' = tfaults + 1
    /\ call' = [call EXCEPT ![p] = "releaseFailed"]
    /\ tpc' = [tpc EXCEPT ![p] = "idle"]
    /\ UNCHANGED <<now, lockRows, txs, todo, cur, seen>>
    /\ UNCHANGED threw
    /\ UNCHANGED nonTopUpVars

ProcStep(p) ==
    \/ AcquireDeleteStale(p)
    \/ AcquireInsert(p)
    \/ AcquireInsertConflict(p)
    \/ AcquireInsertFails(p)
    \/ SelectOrgs(p)
    \/ SelectOrgsThrows(p)
    \/ LoopDone(p)
    \/ SkipRecent(p)
    \/ PassRecent(p)
    \/ OrgStepThrows(p)
    \/ NoPaymentMethod(p)
    \/ InsertPending(p)
    \/ IntentAccepted(p)
    \/ IntentFailed(p)
    \/ IntentIdUpdateThrows(p)
    \/ MarkFailedThrows(p)
    \/ ReleaseLock(p)
    \/ ReleaseLockFails(p)

NextTopUp ==
    \/ Tick
    \/ \E i \in 1..MaxTx : WebhookSucceeded(i)
    \/ \E p \in Procs : ProcStep(p)

NextTopUpSingle ==
    \/ Tick
    \/ \E i \in 1..MaxTx : WebhookSucceeded(i)
    \/ ProcStep("w1")

(***************************************************************************)
(* Claims about the auto top-up loop.                                      *)
(***************************************************************************)
PendingOf(org) == {i \in TxOf(org) : txs[i].status = "pending"}

\* the locked section: between a successful acquireLock and the releaseLock
InLockedSection(p) == tpc[p] \in {"select", "loop", "pm", "intent", "release"}

\* C5: an organization has at most one credit_topup transaction with status
\* pending, in every reachable state and over any length of time.
C5_AtMostOnePending ==
    \A org \in OrgIds : Cardinality(PendingOf(org)) <= 1

\* C6 as stated: no two pending-or-succeeded auto top-up transactions of one
\* organization are created less than an hour apart.
C6_NoTwoPendingOrSucceededWithinHour ==
    \A i, j \in 1..Len(txs) :
        (/\ i < j
         /\ txs[i].org = txs[j].org
         /\ txs[i].status \in {"pending", "succeeded"}
         /\ txs[j].status \in {"pending", "succeeded"})
        => txs[j].createdAt - txs[i].createdAt >= HOUR_MINUTES

\* C6 amended: a process inserts a pending transaction only if the most recent
\* credit_topup transaction it looked up for the organization is not both
\* less than an hour old and pending or failed (a succeeded one does not block).
C6_NoInsertAfterRecentPendingOrFailed ==
    \A p \in Procs :
        tpc[p] \in {"pm", "intent"} =>
            ~(seen[p].found /\ seen[p].recent
              /\ seen[p].status \in {"pending", "failed"})

\* C6 witness: a pending transaction was inserted although the most recent
\* transaction is a succeeded one less than an hour old
C6_Witness ==
    \E p \in Procs :
        /\ tpc[p] = "intent"
        /\ seen[p].found /\ seen[p].recent /\ seen[p].status = "succeeded"

\* C7: at most one process is inside the locked section at any time, also when
\* a holder outlives the 10-minute lease and is preempted.
C7_MutualExclusion ==
    Cardinality({p \in Procs : InLockedSection(p)}) <= 1

Providers == {"openai", "anthropic", "google-ai-studio"}

IsGoogle(provider) == provider \in {"google-ai-studio"}

\* what extractTokenUsage can return for one chunk: `|| null` maps 0 to null
Usages == [p : {"null", "pos"}, c : {"null", "pos"}, t : {"null", "pos"}]

Falsy(tok) == tok \in {"null", "zero"}

\* Math.round(sum of message content lengths / 4)
EstimatePromptTokens == IF shortPrompt THEN "zero" ELSE "pos"

\* `if (usage.x !== null) x = usage.x`
Reported(old, new) == IF new # "null" THEN new ELSE old

\* the row handed to insertLog, reduced to the fields the claims speak about
NoLog == [written |-> FALSE, cached |-> FALSE, canceled |-> FALSE,
          finishReason |-> "null", promptTokens |-> "null",
          completionTokens |-> "null", estimatedCost |-> FALSE,
          hasError |-> FALSE, streamed |-> FALSE]

LogRow(cached, cncl, reason, p, c, estimated) ==
    [written |-> TRUE, cached |-> cached, canceled |-> cncl, finishReason |-> reason,
     promptTokens |-> p, completionTokens |-> c, estimatedCost |-> estimated,
     hasError |-> FALSE, streamed |-> stream]

\* a plausible slip: the cached response is logged with a cost
CacheHitRowWithCost(p, c) ==
    [cost |-> 1] @@ LogRow(TRUE, FALSE, "upstream", p, c, FALSE)

\* the row written on a cache hit: cached: true, cost: 0
CacheHitRow(p, c) ==
    [cost |-> 0] @@ LogRow(TRUE, FALSE, "upstream", p, c, FALSE)

\* statuses of an upstream answer with res.ok false
ErrorStatuses == {400, 429, 499, 500, 503}

\* a slip: 500 itself counts as a gateway error
GetFinishReasonForErrorAbove(statusCode) ==
    IF statusCode > 500 THEN "upstream_error" ELSE "gateway_error"

GetFinishReasonForError(statusCode) ==
    IF statusCode >= 500 THEN "upstream_error" ELSE "gateway_error"

\* the row written for an upstream answer that is not ok
ErrorRow(statusCode, streamed) ==
    [written |-> TRUE, cached |-> FALSE, canceled |-> FALSE,
     finishReason |-> GetFinishReasonForError(statusCode),
     promptTokens |-> "null", completionTokens |-> "null",
     estimatedCost |-> FALSE, hasError |-> TRUE, streamed |-> streamed]

\* where a token count comes from: "upstream" (reported) or "estimate"
NoSource == [p |-> "null", c |-> "null"]

NothingReported == [p |-> FALSE, c |-> FALSE]

NoCache == [enabled |-> FALSE, entry |-> FALSE, reads |-> 0, writes |-> 0]

\* `if (cachingEnabled && !stream)`: the cache key is generated and looked up
CacheConsultedAlsoStreaming(enabled) == enabled

CacheConsulted(enabled) == enabled /\ ~stream

\* calculateCosts marks the cost as estimated when it was given no count
EstimatedCost(p, c) == Falsy(p) \/ Falsy(c)

InitHandler ==
    /\ hpc = "idle"
    /\ stream = FALSE
    /\ shortPrompt = FALSE
    /\ usedProvider = "none"
    /\ requestCanBeCanceled = FALSE
    /\ response = "none"
    /\ sse = <<>>
    /\ insertLogCalls = 0
    /\ promptTokens = "null"
    /\ completionTokens = "null"
    /\ totalTokens = "null"
    /\ fullContent = FALSE
    /\ finishReason = FALSE
    /\ canceled = FALSE
    /\ reads = 0
    /\ cache = NoCache
    /\ upstreamCalls = 0
    /\ clientGone = FALSE
    /\ upstreamAborted = FALSE
    /\ logRow = NoLog
    /\ reported = NothingReported
    /\ tokenSource = NoSource
    /\ upstreamStatus = 0
    /\ errorType = "none"
    /\ bufferDropped = FALSE

\* what the handler learnt from a failed upstream answer
upstreamVars == <<upstreamStatus, errorType>>

\* the locals of the streaming callback that hold the usage
usageVars == <<promptTokens, completionTokens, totalTokens, reported, tokenSource>>

\* the client connection and the upstream call
clientVars == <<clientGone, upstreamAborted, canceled>>

\* the handler moves on from stage `from` to `to`
Pass(from, to) ==
    /\ hpc = from
    /\ hpc' = to

\* a stage throws an HTTPException: the handler ends without insertLog
Reject(status) ==
    /\ hpc' = "returned"
    /\ response' = status
    /\ UNCHANGED <<stream, shortPrompt, usedProvider, requestCanBeCanceled, sse,
                   insertLogCalls, fullContent, finishReason, reads, cache,
                   upstreamCalls, logRow>>
    /\ UNCHANGED <<usageVars, clientVars>>
    /\ UNCHANGED upstreamVars
    /\ UNCHANGED bufferDropped
    /\ UNCHANGED nonHandlerVars

\* the request arrives with its validated body
Receive ==
    /\ Pass("idle", "validate")
    /\ stream' \in BOOLEAN
    /\ shortPrompt' \in BOOLEAN
    /\ UNCHANGED <<usedProvider, requestCanBeCanceled, response, sse,
                   insertLogCalls, fullContent, finishReason, reads, cache,
                   upstreamCalls, logRow>>
    /\ UNCHANGED <<usageVars, clientVars>>
    /\ UNCHANGED upstreamVars
    /\ UNCHANGED bufferDropped
    /\ UNCHANGED nonHandlerVars

StagePasses(to) ==
    /\ hpc' = to
    /\ UNCHANGED <<stream, shortPrompt, usedProvider, requestCanBeCanceled,
                   response, sse, insertLogCalls, fullContent, finishReason,
                   reads, cache, upstreamCalls, logRow>>
    /\ UNCHANGED <<usageVars, clientVars>>
    /\ UNCHANGED upstreamVars
    /\ UNCHANGED bufferDropped
    /\ UNCHANGED nonHandlerVars

\* model parsing and capability gates, before any authentication
ValidateModel == hpc = "validate" /\ StagePasses("authenticate")

ValidateModelRejects ==
    hpc = "validate" /\ \E status \in {"400", "410"} : Reject(status)

Authenticate == hpc = "authenticate" /\ StagePasses("project")

AuthenticateRejects == hpc = "authenticate" /\ Reject("401")

LoadProject == hpc = "project" /\ StagePasses("route")

LoadProjectRejects ==
    hpc = "project" /\ \E status \in {"400", "500"} : Reject(status)

Route ==
    /\ Pass("route", "credentials")
    /\ usedProvider' \in Providers
    /\ UNCHANGED <<stream, shortPrompt, requestCanBeCanceled, response, sse,
                   insertLogCalls, fullContent, finishReason, reads, cache,
                   upstreamCalls, logRow>>
    /\ UNCHANGED <<usageVars, clientVars>>
    /\ UNCHANGED upstreamVars
    /\ UNCHANGED bufferDropped
    /\ UNCHANGED nonHandlerVars

RouteRejects ==
    hpc = "route" /\ \E status \in {"400", "500"} : Reject(status)

ResolveCredentials == hpc = "credentials" /\ StagePasses("endpoint")

ResolveCredentialsRejects ==
    hpc = "credentials" /\ \E status \in {"400", "402", "500"} : Reject(status)

BuildEndpoint == hpc = "endpoint" /\ StagePasses("cache")

BuildEndpointRejects ==
    hpc = "endpoint" /\ \E status \in {"400", "500"} : Reject(status)

\* caching enabled, not streaming, and the key has an entry
CacheHit ==
    /\ Pass("cache", "returned")
    /\ CacheConsulted(TRUE)
    /\ cache' = [enabled |-> TRUE, entry |-> TRUE, reads |-> 1, writes |-> 0]
    /\ insertLogCalls' = insertLogCalls + 1
    /\ \E usage \in Usages :
        logRow' = CacheHitRow(IF usage.p = "null" THEN "null" ELSE "upstream",
                              IF usage.c = "null" THEN "null" ELSE "upstream")
    /\ response' = "json200"
    /\ UNCHANGED <<stream, shortPrompt, usedProvider, requestCanBeCanceled, sse,
                   fullContent, finishReason, reads, upstreamCalls>>
    /\ UNCHANGED <<usageVars, clientVars>>
    /\ UNCHANGED upstreamVars
    /\ UNCHANGED bufferDropped
    /\ UNCHANGED nonHandlerVars

\* caching disabled, a streaming request, or no entry under the key
CacheMiss ==
    /\ Pass("cache", "gates")
    /\ \E enabled \in BOOLEAN, entry \in BOOLEAN :
        /\ ~(CacheConsulted(enabled) /\ entry)
        /\ cache' = [enabled |-> enabled, entry |-> entry,
                     reads |-> IF CacheConsulted(enabled) THEN 1 ELSE 0,
                     writes |-> 0]
    /\ UNCHANGED <<stream, shortPrompt, usedProvider, requestCanBeCanceled,
                   response, sse, insertLogCalls, fullContent, finishReason,
                   reads, upstreamCalls, logRow>>
    /\ UNCHANGED <<usageVars, clientVars>>
    /\ UNCHANGED upstreamVars
    /\ UNCHANGED bufferDropped
    /\ UNCHANGED nonHandlerVars

\* max_tokens above maxOutput, or streaming not supported
GatesReject == hpc = "gates" /\ Reject("400")

\* the gates pass and the request is sent upstream; for a streaming request
\* streamSSE answers at once and runs the callback
GatesPass ==
    /\ Pass("gates", IF stream THEN "fetch" ELSE "unaryFetch")
    /\ requestCanBeCanceled' \in BOOLEAN
    /\ response' = IF stream THEN "sse" ELSE response
    /\ upstreamCalls' = upstreamCalls + 1
    /\ UNCHANGED <<stream, shortPrompt, usedProvider, sse, insertLogCalls,
                   fullContent, finishReason, reads, cache, logRow>>
    /\ UNCHANGED <<usageVars, clientVars>>
    /\ UNCHANGED upstreamVars
    /\ UNCHANGED bufferDropped
    /\ UNCHANGED nonHandlerVars

\* the client disconnects while the provider cannot be canceled: onAbort
\* does nothing and no signal was handed to fetch
ClientDisconnectIgnored ==
    /\ hpc \in {"fetch", "read", "unaryFetch"}
    /\ ~requestCanBeCanceled
    /\ ~clientGone
    /\ clientGone' = TRUE
    /\ UNCHANGED <<hpc, stream, shortPrompt, usedProvider, requestCanBeCanceled,
                   response, sse, insertLogCalls, fullContent, finishReason,
                   reads, cache, upstreamCalls, logRow, upstreamAborted, canceled>>
    /\ UNCHANGED usageVars
    /\ UNCHANGED upstreamVars
    /\ UNCHANGED bufferDropped
    /\ UNCHANGED nonHandlerVars

\* the client disconnects and onAbort aborts the upstream call
Abort ==
    /\ clientGone' = TRUE
    /\ upstreamAborted' = TRUE
    /\ canceled' = TRUE

\* ---- streaming: the upstream fetch ----
StreamEnds(events, row) ==
    /\ Pass("fetch", "returned")
    /\ sse' = sse \o events
    /\ insertLogCalls' = insertLogCalls + (IF row.written THEN 1 ELSE 0)
    /\ logRow' = IF row.written THEN row ELSE logRow
    /\ UNCHANGED <<stream, shortPrompt, usedProvider, requestCanBeCanceled,
                   response, fullContent, finishReason, reads, cache,
                   upstreamCalls>>
    /\ UNCHANGED usageVars
    /\ UNCHANGED bufferDropped
    /\ UNCHANGED nonHandlerVars

\* the client disconnected before the response headers arrived
StreamFetchAborted ==
    /\ requestCanBeCanceled
    /\ Abort
    /\ StreamEnds(<<"canceled", "done">>,
                  LogRow(FALSE, TRUE, "canceled", "null", "null", FALSE))
    /\ UNCHANGED upstreamVars

\* fetch failed with another error: rethrown out of the callback
StreamFetchThrows ==
    /\ Pass("fetch", "returned")
    /\ response' = "sseThrown"
    /\ UNCHANGED <<stream, shortPrompt, usedProvider, requestCanBeCanceled, sse,
                   insertLogCalls, fullContent, finishReason, reads, cache,
                   upstreamCalls, logRow>>
    /\ UNCHANGED <<usageVars, clientVars>>
    /\ UNCHANGED upstreamVars
    /\ UNCHANGED bufferDropped
    /\ UNCHANGED nonHandlerVars

\* a slip: the error is reported to the client but not logged
StreamNotOkUnlogged ==
    /\ \E st \in ErrorStatuses :
        /\ upstreamStatus' = st
        /\ errorType' = GetFinishReasonForError(st)
        /\ StreamEnds(<<"error", "done">>, NoLog)
    /\ UNCHANGED clientVars

StreamNotOk ==
    /\ \E st \in ErrorStatuses :
        /\ upstreamStatus' = st
        /\ errorType' = GetFinishReasonForError(st)
        /\ StreamEnds(<<"error", "done">>, ErrorRow(st, TRUE))
    /\ UNCHANGED clientVars

StreamNoBody ==
    /\ StreamEnds(<<"error", "done">>, NoLog)
    /\ errorType' = "gateway_error"
    /\ UNCHANGED upstreamStatus
    /\ UNCHANGED clientVars

StreamOk == hpc = "fetch" /\ StagePasses("read")

\* ---- streaming: the read loop ----
CanRead == hpc = "read" /\ reads < MaxReads

\* the SSE parser's estimate once a finish reason is known
EstimatedAfterFinish(fin, p, c, t) ==
    IF fin /\ (Falsy(p) \/ Falsy(c))
    THEN [p |-> IF Falsy(p) THEN EstimatePromptTokens ELSE p, c |-> "pos", t |-> "pos"]
    ELSE [p |-> p, c |-> c, t |-> t]

\* the source of a count after `if (usage.x !== null) x = usage.x`
ReportedSource(old, new) == IF new # "null" THEN "upstream" ELSE old

\* the source of the counts after the SSE parser's estimate
SourceAfterFinish(fin, p, c, src) ==
    IF fin /\ (Falsy(p) \/ Falsy(c))
    THEN [p |-> IF Falsy(p) THEN "estimate" ELSE src.p,
          c |-> IF Falsy(c) THEN "estimate" ELSE src.c]
    ELSE src

EverReported(usage) ==
    [p |-> reported.p \/ usage.p # "null", c |-> reported.c \/ usage.c # "null"]

\* a `data: {...}` line of an SSE provider
ReadDataLine ==
    /\ CanRead
    /\ ~IsGoogle(usedProvider)
    /\ \E content \in BOOLEAN, finish \in BOOLEAN, usage \in Usages :
        LET fin == finishReason \/ finish
            p == Reported(promptTokens, usage.p)
            c == Reported(completionTokens, usage.c)
            est == EstimatedAfterFinish(fin, p, c, Reported(totalTokens, usage.t))
            src == [p |-> ReportedSource(tokenSource.p, usage.p),
                    c |-> ReportedSource(tokenSource.c, usage.c)]
        IN  /\ sse' = Append(sse, "chunk")
            /\ fullContent' = (fullContent \/ content)
            /\ finishReason' = fin
            /\ promptTokens' = est.p
            /\ completionTokens' = est.c
            /\ totalTokens' = est.t
            /\ reported' = EverReported(usage)
            /\ tokenSource' = SourceAfterFinish(fin, p, c, src)
    /\ reads' = reads + 1
    /\ UNCHANGED <<hpc, stream, shortPrompt, usedProvider, requestCanBeCanceled,
                   response, insertLogCalls, cache, upstreamCalls, logRow>>
    /\ UNCHANGED clientVars
    /\ UNCHANGED upstreamVars
    /\ UNCHANGED bufferDropped
    /\ UNCHANGED nonHandlerVars

\* the line `data: [DONE]`: the final usage chunk, then the done event
ReadDoneLine ==
    /\ CanRead
    /\ ~IsGoogle(usedProvider)
    /\ sse' = sse \o <<"usage", "done">>
    /\ reads' = reads + 1
    /\ UNCHANGED <<hpc, stream, shortPrompt, usedProvider, requestCanBeCanceled,
                   response, insertLogCalls, fullContent, finishReason, cache,
                   upstreamCalls, logRow>>
    /\ UNCHANGED <<usageVars, clientVars>>
    /\ UNCHANGED upstreamVars
    /\ UNCHANGED bufferDropped
    /\ UNCHANGED nonHandlerVars

ReadNothing ==
    /\ reads' = reads + 1
    /\ UNCHANGED <<hpc, stream, shortPrompt, usedProvider, requestCanBeCanceled,
                   response, sse, insertLogCalls, fullContent, finishReason,
                   cache, upstreamCalls, logRow>>
    /\ UNCHANGED <<usageVars, clientVars>>
    /\ UNCHANGED upstreamVars
    /\ UNCHANGED bufferDropped
    /\ UNCHANGED nonHandlerVars

\* a line that is no `data: ` line or does not parse: skipped
ReadUnparseableLine == CanRead /\ ReadNothing

MAX_BUFFER_SIZE == 10485760

\* buffer.length > MAX_BUFFER_SIZE
BufferExceeded(length) == length > MAX_BUFFER_SIZE

\* the lengths the buffer may have after a chunk was appended
BufferLengths == {1, MAX_BUFFER_SIZE - 1, MAX_BUFFER_SIZE, MAX_BUFFER_SIZE + 1}

\* the buffer grew past MAX_BUFFER_SIZE: cleared, the loop continues
ReadBufferOverflow ==
    /\ CanRead
    /\ \E length \in BufferLengths : BufferExceeded(length)
    /\ reads' = reads + 1
    /\ bufferDropped' = TRUE
    /\ UNCHANGED <<hpc, stream, shortPrompt, usedProvider, requestCanBeCanceled,
                   response, sse, insertLogCalls, fullContent, finishReason,
                   cache, upstreamCalls, logRow>>
    /\ UNCHANGED <<usageVars, clientVars>>
    /\ UNCHANGED upstreamVars
    /\ UNCHANGED nonHandlerVars

\* a complete JSON object of a google provider
ReadGoogleObject ==
    /\ CanRead
    /\ IsGoogle(usedProvider)
    /\ \E content \in BOOLEAN, finish \in BOOLEAN, usage \in Usages :
        LET full == fullContent \/ content
            drop == usage.c = "null" /\ full
        IN  /\ sse' = sse \o <<"chunk">> \o (IF finish THEN <<"done">> ELSE <<>>)
            /\ fullContent' = full
            /\ finishReason' = (finishReason \/ finish)
            /\ promptTokens' = Reported(promptTokens, usage.p)
            /\ completionTokens' = IF drop THEN "null"
                                   ELSE Reported(completionTokens, usage.c)
            /\ totalTokens' = Reported(totalTokens, usage.t)
            /\ reported' = EverReported(usage)
            /\ tokenSource' = [p |-> ReportedSource(tokenSource.p, usage.p),
                               c |-> IF drop THEN "null"
                                     ELSE ReportedSource(tokenSource.c, usage.c)]
    /\ reads' = reads + 1
    /\ UNCHANGED <<hpc, stream, shortPrompt, usedProvider, requestCanBeCanceled,
                   response, insertLogCalls, cache, upstreamCalls, logRow>>
    /\ UNCHANGED clientVars
    /\ UNCHANGED upstreamVars
    /\ UNCHANGED bufferDropped
    /\ UNCHANGED nonHandlerVars

LeaveLoop(abort) ==
    /\ hpc' = "finally"
    /\ IF abort THEN Abort ELSE UNCHANGED clientVars
    /\ UNCHANGED <<stream, shortPrompt, usedProvider, requestCanBeCanceled,
                   response, sse, insertLogCalls, fullContent, finishReason,
                   reads, cache, upstreamCalls, logRow>>
    /\ UNCHANGED usageVars
    /\ UNCHANGED upstreamVars
    /\ UNCHANGED bufferDropped
    /\ UNCHANGED nonHandlerVars

\* reader.read() reports done
ReadEnd == hpc = "read" /\ LeaveLoop(FALSE)

\* a slip: the abort listener ignores the provider's cancellation flag
ReadAbortedUnguarded == hpc = "read" /\ LeaveLoop(TRUE)

\* the client disconnected: onAbort aborts the upstream read
ReadAborted == hpc = "read" /\ requestCanBeCanceled /\ LeaveLoop(TRUE)

\* reader.read() failed with another error: logged to the console only
ReadFails == hpc = "read" /\ LeaveLoop(FALSE)

\* ---- streaming: the finally block ----
MustEstimate == Falsy(promptTokens) \/ Falsy(completionTokens)

\* messages is never empty, so the tokenizer always yields a prompt count
CalculatedPromptTokens ==
    IF (Falsy(promptTokens) \/ Falsy(completionTokens)) /\ Falsy(promptTokens)
    THEN "pos" ELSE promptTokens

CalculatedCompletionTokens ==
    IF (Falsy(promptTokens) \/ Falsy(completionTokens))
       /\ Falsy(completionTokens) /\ fullContent
    THEN "pos" ELSE completionTokens

\* where the counts written to the log come from
CalculatedSource ==
    [p |-> IF MustEstimate /\ Falsy(promptTokens) THEN "estimate" ELSE tokenSource.p,
     c |-> IF MustEstimate /\ Falsy(completionTokens) /\ fullContent THEN "estimate"
           ELSE tokenSource.c]

NeedsUsageChunk ==
    \/ /\ promptTokens = "null"
       /\ completionTokens = "null"
       /\ totalTokens = "null"
       /\ (CalculatedPromptTokens # "null" \/ CalculatedCompletionTokens # "null")
    \/ (completionTokens = "null" /\ CalculatedCompletionTokens # "null")

StreamFinally ==
    /\ Pass("finally", "returned")
    /\ sse' = IF NeedsUsageChunk THEN sse \o <<"usage", "done">> ELSE sse
    /\ insertLogCalls' = insertLogCalls + 1
    /\ logRow' = LogRow(FALSE, canceled,
                        IF finishReason THEN "upstream" ELSE "null",
                        CalculatedSource.p,
                        CalculatedSource.c,
                        EstimatedCost(CalculatedPromptTokens,
                                      CalculatedCompletionTokens))
    /\ UNCHANGED <<stream, shortPrompt, usedProvider, requestCanBeCanceled,
                   response, fullContent, finishReason, reads, cache,
                   upstreamCalls>>
    /\ UNCHANGED <<usageVars, clientVars>>
    /\ UNCHANGED upstreamVars
    /\ UNCHANGED bufferDropped
    /\ UNCHANGED nonHandlerVars

\* ---- the non-streaming path ----
UnaryEnds(status, row) ==
    /\ Pass("unaryFetch", "returned")
    /\ response' = status
    /\ insertLogCalls' = insertLogCalls + (IF row.written THEN 1 ELSE 0)
    /\ logRow' = IF row.written THEN row ELSE logRow
    /\ UNCHANGED <<stream, shortPrompt, usedProvider, requestCanBeCanceled, sse,
                   fullContent, finishReason, reads, upstreamCalls>>
    /\ UNCHANGED <<promptTokens, completionTokens, totalTokens, tokenSource>>
    /\ UNCHANGED bufferDropped
    /\ UNCHANGED nonHandlerVars

UnaryFetchAborted ==
    /\ requestCanBeCanceled
    /\ Abort
    /\ UnaryEnds("400", LogRow(FALSE, TRUE, "canceled", "null", "null", FALSE))
    /\ UNCHANGED <<cache, reported>>
    /\ UNCHANGED upstreamVars

\* fetch failed with another error: rethrown
UnaryFetchThrows ==
    /\ UnaryEnds("thrown", NoLog)
    /\ UNCHANGED <<cache, reported>>
    /\ UNCHANGED upstreamVars
    /\ UNCHANGED clientVars

UnaryNotOk ==
    /\ \E st \in ErrorStatuses :
        /\ upstreamStatus' = st
        /\ errorType' = GetFinishReasonForError(st)
        /\ UnaryEnds("500", ErrorRow(st, FALSE))
    /\ UNCHANGED <<cache, reported>>
    /\ UNCHANGED clientVars

\* estimateTokens: a missing prompt count is always estimated, a missing
\* completion count only when there is content
UnaryOk ==
    /\ \E usage \in Usages, content \in BOOLEAN :
        LET estimateC == usage.c = "null" /\ content
            calcC == IF estimateC THEN "pos" ELSE usage.c
        IN  /\ reported' = [p |-> usage.p # "null", c |-> usage.c # "null"]
            /\ UnaryEnds("json200",
                         LogRow(FALSE, FALSE, "upstream",
                                IF usage.p = "null" THEN "estimate" ELSE "upstream",
                                IF estimateC THEN "estimate"
                                ELSE IF usage.c = "null" THEN "null" ELSE "upstream",
                                EstimatedCost("pos", calcC)))
    /\ cache' = [cache EXCEPT !.writes = IF CacheConsulted(cache.enabled) THEN 1 ELSE 0]
    /\ UNCHANGED upstreamVars
    /\ UNCHANGED clientVars

NextHandler ==
    \/ Receive
    \/ ValidateModel
    \/ ValidateModelRejects
    \/ Authenticate
    \/ AuthenticateRejects
    \/ LoadProject
    \/ LoadProjectRejects
    \/ Route
    \/ RouteRejects
    \/ ResolveCredentials
    \/ ResolveCredentialsRejects
    \/ BuildEndpoint
    \/ BuildEndpointRejects
    \/ CacheHit
    \/ CacheMiss
    \/ GatesReject
    \/ GatesPass
    \/ ClientDisconnectIgnored
    \/ StreamFetchAborted
    \/ StreamFetchThrows
    \/ StreamNotOk
    \/ StreamNoBody
    \/ StreamOk
    \/ ReadDataLine
    \/ ReadDoneLine
    \/ ReadUnparseableLine
    \/ ReadBufferOverflow
    \/ ReadGoogleObject
    \/ ReadEnd
    \/ ReadAborted
    \/ ReadFails
    \/ StreamFinally
    \/ UnaryFetchAborted
    \/ UnaryFetchThrows
    \/ UnaryNotOk
    \/ UnaryOk

(***************************************************************************)
(* Claims about the handler.                                               *)
(***************************************************************************)
Returned == hpc = "returned"

\* the streamSSE callback ran to its end (it did not throw)
StreamClosed == Returned /\ response = "sse"

\* C1: a request that the handler has answered caused exactly one insertLog
\* call, whatever the outcome.
C1_ExactlyOneInsertLog ==
    Returned => insertLogCalls = 1

\* C10: when a streaming response is complete, the last SSE event written to
\* the client is the done event.
C10_LastEventIsDone ==
    StreamClosed => (Len(sse) > 0 /\ sse[Len(sse)] = "done")

(***************************************************************************)
(* The chunks written to the client: transformStreamingChunkToOpenAIFormat *)
(* and the two synthetic usage chunks.  Of a chunk only choices[0].delta   *)
(* and its role are tracked, and whether a usage object is attached.       *)
(***************************************************************************)
DeltaRoles == {"assistant", "other", "absent"}

NoDelta == [delta |-> FALSE, role |-> "absent"]

Delta(role) == [delta |-> TRUE, role |-> role]

\* the shapes of an anthropic event that the transform distinguishes
AnthropicKinds == {"content_block_delta_text", "content_block_start_tool_use",
                   "content_block_delta_partial_json", "message_delta_stop_reason",
                   "message_stop", "delta_text", "other"}

\* the shapes of a google object that the transform distinguishes
GoogleKinds == {"text", "finishReason", "neither"}

\* what an upstream chunk already in OpenAI format can hold in choices[0]
UpstreamChoices == {"noChoices", "noDelta", "deltaNoRole", "deltaAssistant", "deltaOther"}

NoChunk == [provider |-> "none", kind |-> "none", hasId |-> FALSE, hasObject |-> FALSE,
            choices |-> "noChoices", topDelta |-> FALSE, usage |-> FALSE]

AnthropicChunks ==
    {[NoChunk EXCEPT !.provider = "anthropic", !.kind = k, !.usage = u] :
        k \in AnthropicKinds, u \in BOOLEAN}

GoogleChunks ==
    {[NoChunk EXCEPT !.provider = p, !.kind = k, !.usage = u] :
        p \in {"google-ai-studio", "google-vertex"}, k \in GoogleKinds, u \in BOOLEAN}

OpenAIFormatChunks ==
    [provider : {"openai", "deepseek"}, kind : {"openai"}, hasId : BOOLEAN,
     hasObject : BOOLEAN, choices : UpstreamChoices, topDelta : BOOLEAN,
     usage : BOOLEAN]

\* choices[0].delta of an upstream chunk, as sent
UpstreamDelta(choices) ==
    CASE choices = "deltaNoRole" -> Delta("absent")
      [] choices = "deltaAssistant" -> Delta("assistant")
      [] choices = "deltaOther" -> Delta("other")
      [] OTHER -> NoDelta

\* `role: choice.delta.role || "assistant"`
EnsureRole(d) == IF d.delta /\ d.role = "absent" THEN Delta("assistant") ELSE d

TransformStreamingChunkToOpenAIFormat(data) ==
    CASE data.provider = "anthropic" -> Delta("assistant")
      [] data.provider \in {"google-ai-studio", "google-vertex"} ->
            IF data.kind \in {"text", "finishReason"} THEN Delta("assistant")
            ELSE NoDelta
      [] OTHER ->
            IF ~data.hasId \/ ~data.hasObject
            THEN IF data.choices # "noChoices" THEN UpstreamDelta(data.choices)
                 ELSE Delta("assistant")
            ELSE EnsureRole(UpstreamDelta(data.choices))

\* `delta: {}` of the synthetic usage chunks
FinalUsageChunk == Delta("absent")

InitChunk ==
    /\ chunkIn = NoChunk
    /\ chunkOut = NoDelta

TransformChunk(inputs) ==
    /\ \E data \in inputs :
        /\ chunkIn' = data
        /\ chunkOut' = TransformStreamingChunkToOpenAIFormat(data)
    /\ UNCHANGED nonChunkVars

TransformAnthropicChunk == TRUE /\ TransformChunk(AnthropicChunks)

TransformGoogleChunk == TRUE /\ TransformChunk(GoogleChunks)

TransformOpenAIFormatChunk == TRUE /\ TransformChunk(OpenAIFormatChunks)

\* the usage chunk written on `data: [DONE]`
WriteUsageChunkOnDone ==
    /\ chunkIn' = [NoChunk EXCEPT !.kind = "[DONE]"]
    /\ chunkOut' = FinalUsageChunk
    /\ UNCHANGED nonChunkVars

\* the usage chunk written in the finally block
WriteUsageChunkInFinally ==
    /\ chunkIn' = [NoChunk EXCEPT !.kind = "finally"]
    /\ chunkOut' = FinalUsageChunk
    /\ UNCHANGED nonChunkVars

NextChunk ==
    \/ TransformAnthropicChunk
    \/ TransformGoogleChunk
    \/ TransformOpenAIFormatChunk
    \/ WriteUsageChunkOnDone
    \/ WriteUsageChunkInFinally

\* C11: every chunk written to the client that carries a delta, the synthetic
\* usage chunk included, has delta.role = "assistant".
C11_DeltaRoleIsAssistant ==
    chunkOut.delta => chunkOut.role = "assistant"

(***************************************************************************)
(* C12: the response cache.                                                *)
(***************************************************************************)
\* the handler is past the cache stage
PastCache == hpc \in {"gates", "fetch", "read", "finally", "unaryFetch", "returned"}

\* C12: a non-streaming request with caching enabled whose key has an entry
\* is answered from the cache (the cached JSON body, a log row marked cached)
\* with no request sent upstream; a streaming request never reads or writes
\* the cache.
C12_CacheHitNeverDispatches ==
    /\ (~stream /\ cache.enabled /\ cache.entry /\ PastCache) =>
           /\ upstreamCalls = 0
           /\ hpc = "returned"
           /\ response = "json200"
           /\ logRow.written /\ logRow.cached
    /\ stream => (cache.reads = 0 /\ cache.writes = 0)

C12_Witness ==
    /\ hpc = "returned"
    /\ ~stream
    /\ cache.enabled /\ cache.entry /\ cache.reads = 1
    /\ logRow.cached
    /\ upstreamCalls = 0

(***************************************************************************)
(* C13, C14: client disconnects.                                           *)
(***************************************************************************)
\* the last two SSE events are `canceled` and `[DONE]`
EndsCanceledDone ==
    /\ Len(sse) >= 2
    /\ sse[Len(sse) - 1] = "canceled"
    /\ sse[Len(sse)] = "done"

\* C13: when the client disconnects during a streaming request to a provider
\* that can be canceled, before the headers or while the body is read, the
\* upstream request is aborted, the stream ends with a `canceled` event and
\* `[DONE]`, and the log row has canceled = true and finishReason "canceled".
C13_CancelWritesCanceledAndDone ==
    (hpc = "returned" /\ stream /\ clientGone /\ requestCanBeCanceled) =>
        /\ upstreamAborted
        /\ EndsCanceledDone
        /\ logRow.written
        /\ logRow.canceled
        /\ logRow.finishReason = "canceled"

CompletedRow ==
    /\ logRow.written
    /\ ~logRow.cached
    /\ logRow.finishReason \notin {"canceled", "upstream_error", "gateway_error"}

\* C15: when upstream reported both a prompt and a completion token count,
\* in the unary response or in any chunk of the stream, the promptTokens and
\* completionTokens of the log row are the reported values; a count reported
\* in an earlier chunk is not discarded because a later chunk omits it.
C15_LoggedTokensAreReported ==
    (CompletedRow /\ reported.p /\ reported.c) =>
        /\ logRow.promptTokens = "upstream"
        /\ logRow.completionTokens = "upstream"

(***************************************************************************)
(* Admission of a request: model resolution and gates, authentication,     *)
(* project, routing and credentials, up to the upstream call.              *)
(***************************************************************************)
\* a small catalog in the shape of `models`: the entries auto and custom,
\* then models with their provider mappings in order
Catalog ==
    << [id |-> "auto", providers |-> <<"llmgateway">>],
       [id |-> "custom", providers |-> <<"llmgateway">>],
       [id |-> "modelA", providers |-> <<"openai", "anthropic">>],
       [id |-> "modelB", providers |-> <<"anthropic">>],
       [id |-> "modelC", providers |-> <<"google-ai-studio", "openai">>] >>

CatalogIds == {Catalog[i].id : i \in 1..Len(Catalog)}

ModelDef(id) == CHOOSE m \in {Catalog[i] : i \in 1..Len(Catalog)} : m.id = id

\* the model field of the request, after the parsing at the top of the handler:
\* kind auto, a bare catalog id, provider/model of a known provider, a name
\* under a custom provider, a provider's own model name without prefix, or
\* a name nobody knows
ModelFields ==
    {[kind |-> "auto", id |-> "auto", provider |-> "llmgateway"]}
    \cup [kind : {"bare"}, id : {"modelA", "modelB"}, provider : {"none"}]
    \cup [kind : {"prefixed"}, id : {"modelA", "modelB"}, provider : {"openai", "anthropic"}]
    \cup {[kind |-> "customProvider", id |-> "any", provider |-> "custom"]}
    \cup {[kind |-> "needsPrefix", id |-> "any", provider |-> "none"]}
    \cup {[kind |-> "unknown", id |-> "any", provider |-> "none"]}

\* what the gates after model resolution find
Gates == {"pass", "deactivated", "json", "reasoning"}

ModelInputs ==
    {in \in [field : ModelFields, gate : Gates] :
        /\ in.field.kind \in {"needsPrefix", "unknown"} => in.gate = "pass"
        /\ in.field.kind = "customProvider" => in.gate \in {"pass", "reasoning"}
        /\ in.field.kind = "auto" => in.gate \in {"pass", "json", "reasoning"}}

NoModelInput == [field |-> [kind |-> "none", id |-> "none", provider |-> "none"],
                 gate |-> "pass"]

\* the outcome of model resolution and of the gates: a status or "pass"
ResolveStatus(in) ==
    IF in.field.kind \in {"needsPrefix", "unknown"} THEN "400"
    ELSE IF /\ in.field.kind = "prefixed"
            /\ in.field.provider \notin Range(ModelDef(in.field.id).providers)
    THEN "400"
    ELSE IF in.gate = "deactivated" THEN "410"
    ELSE IF in.gate \in {"json", "reasoning"} THEN "400"
    ELSE "pass"

\* the Authorization header: absent, or a string cut by split("Bearer ") into
\* `parts` pieces, with or without text before the first piece, and the
\* text after it (the token)
Tokens == {"empty", "unknown", "disabled", "active"}

NoHeader == [present |-> FALSE, parts |-> 1, prefix |-> FALSE, token |-> "empty"]

Headers ==
    {NoHeader}
    \cup {h \in [present : {TRUE}, parts : 1..3, prefix : BOOLEAN, token : Tokens] :
             /\ h.parts = 1 => (h.prefix /\ h.token = "empty")
             /\ h.parts = 3 => (~h.prefix /\ h.token = "active")}

\* the header has the form `Bearer <token>`
WellFormed(h) == h.present /\ h.parts = 2 /\ ~h.prefix /\ h.token # "empty"

\* the header is `Bearer <token>` with the token of an active api key
ValidBearer(h) == WellFormed(h) /\ h.token = "active"

\* the api key row found by `token eq`, if any
ApiKeyFound(h) == h.token \in {"disabled", "active"}

\* the outcome of the authentication block
AuthStatus(h) ==
    IF ~h.present THEN "401"
    ELSE IF h.parts # 2 THEN "401"
    ELSE IF h.token = "empty" THEN "401"
    ELSE IF ~ApiKeyFound(h) THEN "401"
    ELSE "pass"

Modes == {"api-keys", "credits", "hybrid"}

StoredProviders == Providers \cup {"custom"}

\* organization.credits: negative, zero, positive
CreditValues == {-1, 0, 5}

NoRoute == [provider |-> "none", model |-> "none"]

\* max_tokens is absent from the request
Undefined == 0 - 1

\* maxOutput of the mock mapping of a custom provider
CUSTOM_MAX_OUTPUT == 4096

\* maxOutput of the stand-in catalog's mappings that have one
CatalogMaxOutput == 3

MaxTokensValues ==
    {Undefined, 1, CatalogMaxOutput, CatalogMaxOutput + 1,
     CUSTOM_MAX_OUTPUT, CUSTOM_MAX_OUTPUT + 1}

InitAdmission ==
    /\ apc = "idle"
    /\ header = NoHeader
    /\ modelInput = NoModelInput
    /\ mode = "none"
    /\ storedKeys = {}
    /\ envProviders = {}
    /\ orgCredits = 0
    /\ deprecated = {}
    /\ availableProviders = {}
    /\ routed = NoRoute
    /\ tokenFrom = "none"
    /\ httpStatus = "none"
    /\ rejectedAt = "none"
    /\ cacheLookup = FALSE
    /\ dispatched = FALSE
    /\ maxTokens = Undefined

requestFields == <<header, modelInput, maxTokens>>

orgState == <<mode, storedKeys, envProviders, orgCredits>>

routeVars == <<deprecated, availableProviders, routed>>

sentVars == <<cacheLookup, dispatched>>

\* an HTTPException thrown at stage `at`
Throw(at, st) ==
    /\ apc' = "done"
    /\ httpStatus' = st
    /\ rejectedAt' = at

Continue(to) ==
    /\ apc' = to
    /\ UNCHANGED <<httpStatus, rejectedAt>>

ReceiveRequest ==
    /\ apc = "idle"
    /\ header' \in Headers
    /\ modelInput' \in ModelInputs
    /\ Continue("resolve")
    /\ UNCHANGED <<maxTokens, orgState, routeVars, tokenFrom, sentVars>>
    /\ UNCHANGED nonAdmissionVars

\* model resolution and the deactivation, JSON and reasoning gates
ResolveModel ==
    /\ apc = "resolve"
    /\ IF ResolveStatus(modelInput) = "pass"
       THEN Continue("auth")
       ELSE Throw("resolve", ResolveStatus(modelInput))
    /\ UNCHANGED <<requestFields, orgState, routeVars, tokenFrom, sentVars>>
    /\ UNCHANGED nonAdmissionVars

CheckAuthorization ==
    /\ apc = "auth"
    /\ IF AuthStatus(header) = "pass"
       THEN Continue("project")
       ELSE Throw("auth", AuthStatus(header))
    /\ UNCHANGED <<requestFields, orgState, routeVars, tokenFrom, sentVars>>
    /\ UNCHANGED nonAdmissionVars

\* getProject, and checkCustomProviderExists for a custom provider name
GetProject ==
    /\ apc = "project"
    /\ mode' \in Modes
    /\ storedKeys' \in SUBSET StoredProviders
    /\ envProviders' \in SUBSET Providers
    /\ IF modelInput.field.kind = "customProvider" /\ "custom" \notin storedKeys'
       THEN Throw("project", "400")
       ELSE Continue("route")
    /\ UNCHANGED <<requestFields, orgCredits, routeVars, tokenFrom, sentVars>>
    /\ UNCHANGED nonAdmissionVars

GetProjectFails ==
    /\ apc = "project"
    /\ Throw("project", "500")
    /\ UNCHANGED <<requestFields, orgState, routeVars, tokenFrom, sentVars>>
    /\ UNCHANGED nonAdmissionVars

\* ---- routing ----
\* availableProviders of the auto branch
AutoAvailable(m, keys, env) ==
    IF m = "api-keys" THEN keys
    ELSE IF m = "credits" THEN env
    ELSE keys \cup env

\* availableProviders of the branch for a bare model id with several mappings
BareAvailable(m, keys, env, providerIds) ==
    IF m = "api-keys" THEN keys \cap providerIds ELSE env

\* seq.filter(p => set.includes(p))
RECURSIVE Filter(_, _)
Filter(seq, set) ==
    IF seq = <<>> THEN <<>>
    ELSE (IF Head(seq) \in set THEN <<Head(seq)>> ELSE <<>>) \o Filter(Tail(seq), set)

\* the loop `for (const modelDef of models)` from catalog position i on
RECURSIVE AutoLoopKeepsDeprecated(_, _, _)
AutoLoopKeepsDeprecated(i, available, old) ==
    IF i > Len(Catalog) THEN [provider |-> "llmgateway", model |-> "auto"]
    ELSE IF Catalog[i].id \in {"auto", "custom"}
    THEN AutoLoopKeepsDeprecated(i + 1, available, old)
    ELSE IF Filter(Catalog[i].providers, available) # <<>>
    THEN [provider |-> Filter(Catalog[i].providers, available)[1], model |-> Catalog[i].id]
    ELSE AutoLoopKeepsDeprecated(i + 1, available, old)

RECURSIVE AutoLoop(_, _, _)
AutoLoop(i, available, old) ==
    IF i > Len(Catalog) THEN [provider |-> "llmgateway", model |-> "auto"]
    ELSE IF Catalog[i].id \in {"auto", "custom"} THEN AutoLoop(i + 1, available, old)
    ELSE IF Catalog[i].id \in old THEN AutoLoop(i + 1, available, old)
    ELSE IF Filter(Catalog[i].providers, available) # <<>>
    THEN [provider |-> Filter(Catalog[i].providers, available)[1], model |-> Catalog[i].id]
    ELSE AutoLoop(i + 1, available, old)

\* the auto branch with its fallback
AutoRoute(available, old) ==
    LET r == AutoLoop(1, available, old)
    IN  IF r.provider = "llmgateway"
        THEN [provider |-> "openai", model |-> "gpt-4o-mini"]
        ELSE r

RouteAuto ==
    /\ apc = "route"
    /\ modelInput.field.kind = "auto"
    /\ \E old \in SUBSET (CatalogIds \ {"auto", "custom"}) :
        /\ deprecated' = old
        /\ availableProviders' = AutoAvailable(mode, storedKeys, envProviders)
        /\ routed' = AutoRoute(AutoAvailable(mode, storedKeys, envProviders), old)
    /\ Continue("credentials")
    /\ UNCHANGED <<requestFields, orgState, tokenFrom, sentVars>>
    /\ UNCHANGED nonAdmissionVars

\* provider/model: the requested provider is used as it is
RoutePrefixed ==
    /\ apc = "route"
    /\ modelInput.field.kind \in {"prefixed", "customProvider"}
    /\ routed' = [provider |-> modelInput.field.provider, model |-> modelInput.field.id]
    /\ Continue("credentials")
    /\ UNCHANGED <<requestFields, orgState, deprecated, availableProviders,
                   tokenFrom, sentVars>>
    /\ UNCHANGED nonAdmissionVars

\* a bare model id with one mapping
RouteSingle ==
    /\ apc = "route"
    /\ modelInput.field.kind = "bare"
    /\ Len(ModelDef(modelInput.field.id).providers) = 1
    /\ routed' = [provider |-> ModelDef(modelInput.field.id).providers[1],
                  model |-> modelInput.field.id]
    /\ Continue("credentials")
    /\ UNCHANGED <<requestFields, orgState, deprecated, availableProviders,
                   tokenFrom, sentVars>>
    /\ UNCHANGED nonAdmissionVars

\* a bare model id with several mappings: the cheapest available mapping
RouteBare ==
    /\ apc = "route"
    /\ modelInput.field.kind = "bare"
    /\ Len(ModelDef(modelInput.field.id).providers) # 1
    /\ LET mappings == ModelDef(modelInput.field.id).providers
           available == BareAvailable(mode, storedKeys, envProviders, Range(mappings))
           candidates == Filter(mappings, available)
       IN  /\ availableProviders' = available
           /\ IF candidates = <<>>
              THEN /\ Throw("route", "400")
                   /\ UNCHANGED routed
              ELSE /\ \E p \in Range(candidates) :
                        routed' = [provider |-> p, model |-> modelInput.field.id]
                   /\ Continue("credentials")
    /\ UNCHANGED <<requestFields, orgState, deprecated, tokenFrom, sentVars>>
    /\ UNCHANGED nonAdmissionVars

\* ---- credentials ----
\* getProviderKey / getCustomProviderKey: the organization's stored key
HasStoredKey(p) == p \in storedKeys

\* a slip: the balance is checked with `< 0`
CredentialZeroPasses(c) ==
    IF mode = "credits" /\ routed.provider = "custom" THEN "400"
    ELSE IF mode = "api-keys"
    THEN (IF HasStoredKey(routed.provider) THEN "stored" ELSE "400")
    ELSE IF mode = "hybrid" /\ HasStoredKey(routed.provider) THEN "stored"
    ELSE IF c < 0 THEN "402"
    ELSE IF routed.provider \in envProviders THEN "env"
    ELSE "400"

\* what credential resolution yields for credits `c`: a status, or the origin
\* of usedToken
Credential(c) ==
    IF mode = "credits" /\ routed.provider = "custom" THEN "400"
    ELSE IF mode = "api-keys"
    THEN (IF HasStoredKey(routed.provider) THEN "stored" ELSE "400")
    ELSE IF mode = "hybrid" /\ HasStoredKey(routed.provider) THEN "stored"
    ELSE IF c <= 0 THEN "402"
    ELSE IF routed.provider \in envProviders THEN "env"
    ELSE "400"

GetCredentials ==
    /\ apc = "credentials"
    /\ \E c \in CreditValues :
        /\ orgCredits' = c
        /\ IF Credential(c) \in {"stored", "env"}
           THEN /\ tokenFrom' = Credential(c)
                /\ Continue("endpoint")
           ELSE /\ Throw("credentials", Credential(c))
                /\ UNCHANGED tokenFrom
    /\ UNCHANGED <<requestFields, mode, storedKeys, envProviders, routeVars, sentVars>>
    /\ UNCHANGED nonAdmissionVars

\* getOrganization finds no row
GetOrganizationFails ==
    /\ apc = "credentials"
    /\ mode # "api-keys"
    /\ ~(mode = "credits" /\ routed.provider = "custom")
    /\ ~(mode = "hybrid" /\ HasStoredKey(routed.provider))
    /\ Throw("credentials", "500")
    /\ UNCHANGED <<requestFields, orgState, routeVars, tokenFrom, sentVars>>
    /\ UNCHANGED nonAdmissionVars

\* ---- endpoint, cache, upstream ----
GetEndpoint ==
    /\ apc = "endpoint"
    /\ Continue("cache")
    /\ UNCHANGED <<requestFields, orgState, routeVars, tokenFrom, sentVars>>
    /\ UNCHANGED nonAdmissionVars

GetEndpointFails ==
    /\ apc = "endpoint"
    /\ \E st \in {"400", "500"} : Throw("endpoint", st)
    /\ UNCHANGED <<requestFields, orgState, routeVars, tokenFrom, sentVars>>
    /\ UNCHANGED nonAdmissionVars

\* the cache stage: a hit answers the request, otherwise it goes on
LookupCache ==
    /\ apc = "cache"
    /\ cacheLookup' = TRUE
    /\ \/ Continue("gates")
       \/ /\ apc' = "done"
          /\ httpStatus' = "200"
          /\ UNCHANGED rejectedAt
    /\ UNCHANGED <<requestFields, orgState, routeVars, tokenFrom, dispatched>>
    /\ UNCHANGED nonAdmissionVars

\* ---- the max_tokens gate ----
\* the mapping of finalModelInfo for usedProvider and usedModel has a maxOutput
HasMaxOutput(route) ==
    \/ route.provider = "custom"
    \/ /\ route.model \in CatalogIds
       /\ route.provider \in Range(ModelDef(route.model).providers)
       /\ route.provider # "google-ai-studio"

MaxOutput(route) ==
    IF route.provider = "custom" THEN CUSTOM_MAX_OUTPUT ELSE CatalogMaxOutput

\* a slip: the limit itself is refused
ExceedsMaxOutputInclusive(mt, route) ==
    mt # Undefined /\ HasMaxOutput(route) /\ mt >= MaxOutput(route)

\* `max_tokens !== undefined && ... && max_tokens > providerMapping.maxOutput`
ExceedsMaxOutput(mt, route) ==
    mt # Undefined /\ HasMaxOutput(route) /\ mt > MaxOutput(route)

CheckMaxTokens ==
    /\ apc = "gates"
    /\ \E mt \in MaxTokensValues :
        /\ maxTokens' = mt
        /\ IF ExceedsMaxOutput(mt, routed)
           THEN Throw("gates", "400")
           ELSE Continue("dispatch")
    /\ UNCHANGED <<header, modelInput, orgState, routeVars, tokenFrom, sentVars>>
    /\ UNCHANGED nonAdmissionVars

\* the request is sent to the provider
DispatchUpstream ==
    /\ apc = "dispatch"
    /\ dispatched' = TRUE
    /\ apc' = "done"
    /\ httpStatus' \in {"200", "500"}
    /\ UNCHANGED <<requestFields, orgState, routeVars, tokenFrom, cacheLookup,
                   rejectedAt>>
    /\ UNCHANGED nonAdmissionVars

NextAdmission ==
    \/ ReceiveRequest
    \/ ResolveModel
    \/ CheckAuthorization
    \/ GetProject
    \/ GetProjectFails
    \/ RouteAuto
    \/ RoutePrefixed
    \/ RouteSingle
    \/ RouteBare
    \/ GetCredentials
    \/ GetOrganizationFails
    \/ GetEndpoint
    \/ GetEndpointFails
    \/ LookupCache
    \/ CheckMaxTokens
    \/ DispatchUpstream

(***************************************************************************)
(* C16 - C20: authentication, credits and routing.                         *)
(***************************************************************************)
\* the request got past model resolution and the authentication block ran
Authenticated == apc \notin {"idle", "resolve", "auth"} /\ rejectedAt # "resolve"

\* C16: a request with no Authorization header, a header not of the form
\* `Bearer <token>`, a token of no api key or the token of a disabled api key
\* is rejected with 401 by the authentication block and is never dispatched.
C16_AuthFailureIs401 ==
    (Authenticated /\ ~ValidBearer(header)) =>
        /\ httpStatus = "401"
        /\ rejectedAt = "auth"
        /\ ~dispatched

\* C17: a request without a valid bearer token is always answered 401,
\* whatever its model field and parameters, never with a model or routing
\* error.
C17_AuthBeforeGates ==
    (apc = "done" /\ ~ValidBearer(header)) => httpStatus = "401"

\* credential resolution ran and found the organization
CreditsRead ==
    /\ apc \in {"endpoint", "cache", "dispatch", "done"}
    /\ rejectedAt \notin {"resolve", "auth", "project", "route"}
    /\ ~(rejectedAt = "credentials" /\ httpStatus = "500")

\* the request is paid from the organization's credits
PaidFromCredits ==
    \/ mode = "credits" /\ routed.provider # "custom"
    \/ mode = "hybrid" /\ ~HasStoredKey(routed.provider)

\* C18: in credits mode, and in hybrid mode without a stored key for the used
\* provider, a request of an organization with credits <= 0 is rejected with
\* 402 before any cache lookup or upstream call; in hybrid mode with a stored
\* key the request proceeds with that key whatever the balance is.
C18_NoCreditsIs402 ==
    /\ (CreditsRead /\ PaidFromCredits /\ orgCredits <= 0) =>
           /\ httpStatus = "402"
           /\ rejectedAt = "credentials"
           /\ ~cacheLookup
           /\ ~dispatched
    /\ (CreditsRead /\ mode = "hybrid" /\ HasStoredKey(routed.provider)) =>
           /\ tokenFrom = "stored"
           /\ rejectedAt # "credentials"

C18_Witness ==
    /\ apc = "done"
    /\ mode = "hybrid"
    /\ ~HasStoredKey(routed.provider)
    /\ routed.provider \in envProviders
    /\ orgCredits = 0
    /\ httpStatus = "402"

\* the routing block ran
RoutingRan ==
    /\ apc \notin {"idle", "resolve", "auth", "project", "route"}
    /\ rejectedAt \notin {"resolve", "auth", "project"}

\* the provider mappings of the requested catalog model
RequestedMappings == Range(ModelDef(modelInput.field.id).providers)

\* C19: in hybrid mode routing works on the union of the providers with an
\* active stored key and the providers with an environment credential, for
\* model auto and for a bare model id with several mappings: a mapping whose
\* provider has only a stored key is a candidate, and the request is not
\* rejected for want of an available provider.
C19_HybridUsesUnion ==
    (RoutingRan /\ mode = "hybrid") =>
        /\ modelInput.field.kind = "auto" =>
               availableProviders = storedKeys \cup envProviders
        /\ (modelInput.field.kind = "bare" /\ Cardinality(RequestedMappings) > 1) =>
               /\ \A p \in RequestedMappings :
                      p \in storedKeys \cup envProviders => p \in availableProviders
               /\ RequestedMappings \cap (storedKeys \cup envProviders) # {}
                      => rejectedAt # "route"

\* C20: for model auto the router selects the first model in catalog order,
\* the entries auto and custom skipped, that is not past its deprecatedAt and
\* has a mapping whose provider is available, and uses that model's first
\* available mapping; if no model qualifies it routes to openai, gpt-4o-mini.
C20_AutoPicksFirstQualifying ==
    (RoutingRan /\ modelInput.field.kind = "auto") =>
        LET Qualifies(i) ==
                /\ Catalog[i].id \notin {"auto", "custom"}
                /\ Catalog[i].id \notin deprecated
                /\ Range(Catalog[i].providers) \cap availableProviders # {}
            qualifying == {i \in 1..Len(Catalog) : Qualifies(i)}
            first == CHOOSE i \in qualifying : \A k \in qualifying : i <= k
            mappings == Catalog[first].providers
            usable == {j \in 1..Len(mappings) : mappings[j] \in availableProviders}
            firstUsable == CHOOSE j \in usable : \A k \in usable : j <= k
        IN  IF qualifying = {}
            THEN routed = [provider |-> "openai", model |-> "gpt-4o-mini"]
            ELSE routed = [provider |-> mappings[firstUsable],
                           model |-> Catalog[first].id]

C20_Witness ==
    /\ RoutingRan
    /\ modelInput.field.kind = "auto"
    /\ "modelA" \in deprecated
    /\ "openai" \in availableProviders
    /\ "modelC" \notin deprecated
    /\ routed = [provider |-> "openai", model |-> "modelC"]

\* C21: for model auto, when no catalog model has an available provider the
\* router fails with a NoAvailableProvider error instead of routing to
\* openai, gpt-4o-mini; the provider it returns is always one of the
\* available providers.
C21_AutoNeverRoutesToUnavailable ==
    (RoutingRan /\ modelInput.field.kind = "auto") =>
        IF rejectedAt = "route"
        THEN routed = NoRoute
        ELSE routed.provider \in availableProviders

\* the max_tokens gate ran for a mapping that has a maxOutput
GateRan ==
    /\ apc \in {"dispatch", "done"}
    /\ rejectedAt \in {"none", "gates"}
    /\ cacheLookup
    /\ (apc = "done" /\ rejectedAt = "none") => dispatched
    /\ HasMaxOutput(routed)

\* C22: a request with max_tokens equal to the maxOutput of the resolved
\* mapping passes the gate and one with max_tokens = maxOutput + 1 is
\* rejected with 400 before the upstream call, however the model was
\* resolved (provider/model, bare id, auto).
C22_MaxTokensBoundary ==
    GateRan =>
        /\ maxTokens = MaxOutput(routed) => rejectedAt = "none"
        /\ maxTokens = MaxOutput(routed) + 1 =>
               /\ rejectedAt = "gates"
               /\ httpStatus = "400"
               /\ ~dispatched

C22_Witness ==
    /\ GateRan
    /\ modelInput.field.kind = "auto"
    /\ maxTokens = MaxOutput(routed) + 1
    /\ httpStatus = "400"

(***************************************************************************)
(* Finish reasons handed to the client.                                    *)
(***************************************************************************)
\* upstream finish reasons; "" is an empty or missing value
FinishValues ==
    {"", "STOP", "end_turn", "stop", "tool_use", "length", "MAX_TOKENS",
     "max_tokens", "SAFETY", "content_filter"}

\* String.prototype.toLowerCase on these values
ToLowerCase(v) ==
    CASE v = "STOP" -> "stop"
      [] v = "MAX_TOKENS" -> "max_tokens"
      [] v = "SAFETY" -> "safety"
      [] OTHER -> v

\* `x || y` on strings
OrElse(x, y) == IF x = "" THEN y ELSE x

\* a JSON value passed through as it came: an empty one stays empty (null)
PassedThrough(v) == IF v = "" THEN "null" ELSE v

UnaryResponses ==
    [path : {"unary"}, family : {"google", "anthropic", "openai"},
     shape : {"plain"}, value : FinishValues]
    \cup [path : {"unary"}, family : {"groq"}, shape : {"withId", "noId"},
          value : FinishValues]

StreamChunks ==
    [path : {"stream"}, family : {"google"}, shape : {"finish", "textAndFinish"},
     value : FinishValues \ {""}]
    \cup [path : {"stream"}, family : {"anthropic"}, shape : {"message_delta"},
          value : FinishValues \ {""}]
    \cup [path : {"stream"}, family : {"anthropic"}, shape : {"message_stop"},
          value : FinishValues]
    \cup [path : {"stream"}, family : {"openai"},
          shape : {"complete", "noIdChoices", "noIdFlat"},
          value : FinishValues \ {""}]

NoFinish == [path |-> "none", family |-> "none", shape |-> "none", value |-> ""]

\* transformToOpenAIFormat after parseProviderResponse: choices[0].finish_reason
TransformToOpenAIFormat(json) ==
    CASE json.family = "google" ->
            IF json.value = "STOP" THEN "stop"
            ELSE OrElse(ToLowerCase(json.value), "stop")
      [] json.family = "anthropic" ->
            IF json.value = "end_turn" THEN "stop"
            ELSE OrElse(ToLowerCase(json.value), "stop")
      [] json.family = "groq" /\ json.shape = "noId" -> OrElse(json.value, "stop")
      [] OTHER -> PassedThrough(json.value)

\* Anthropic's stop reasons in a streamed chunk
AnthropicStopReason(stopReason) ==
    IF stopReason = "end_turn" THEN "stop"
    ELSE IF stopReason = "tool_use" THEN "tool_calls"
    ELSE OrElse(ToLowerCase(stopReason), "stop")

\* transformStreamingChunkToOpenAIFormat: choices[0].finish_reason
StreamingFinishReason(data) ==
    CASE data.family = "google" /\ data.shape = "textAndFinish" -> "null"
      [] data.family = "google" /\ data.shape = "finish" ->
            IF data.value = "STOP" THEN "stop"
            ELSE OrElse(ToLowerCase(data.value), "stop")
      [] data.family = "anthropic" /\ data.shape = "message_delta" ->
            AnthropicStopReason(data.value)
      [] data.family = "anthropic" /\ data.shape = "message_stop" ->
            AnthropicStopReason(OrElse(data.value, "end_turn"))
      [] OTHER -> PassedThrough(data.value)

InitFinish ==
    /\ finishIn = NoFinish
    /\ finishOut = "null"

\* a non-streaming upstream response is transformed
TransformResponse ==
    /\ \E json \in UnaryResponses :
        /\ finishIn' = json
        /\ finishOut' = TransformToOpenAIFormat(json)
    /\ UNCHANGED nonFinishVars

\* a streamed upstream chunk with a finish reason is transformed
TransformFinishChunk ==
    /\ \E data \in StreamChunks :
        /\ finishIn' = data
        /\ finishOut' = StreamingFinishReason(data)
    /\ UNCHANGED nonFinishVars

NextFinish ==
    \/ TransformResponse
    \/ TransformFinishChunk

\* the canonical finish reason of an upstream value
Canonical(v) ==
    CASE v \in {"", "STOP", "end_turn", "stop"} -> "stop"
      [] v = "tool_use" -> "tool_calls"
      [] v \in {"length", "MAX_TOKENS"} -> "length"
      [] OTHER -> ToLowerCase(v)

\* C23: the finish_reason handed to the client, unary or streamed and for
\* every provider family, is the canonical mapping of the upstream value:
\* STOP, end_turn, stop give stop; tool_use gives tool_calls; length and
\* MAX_TOKENS give length; another value gives its lowercase; empty gives stop.
C23_FinishReasonIsCanonical ==
    finishIn # NoFinish => finishOut = Canonical(finishIn.value)

(***************************************************************************)
(* C24, C25: upstream answers that are not ok.                             *)
(***************************************************************************)
\* C24: when upstream answers a non-streaming request with a non-2xx status
\* the handler returns HTTP 500 whose error type and code are upstream_error
\* for an upstream status >= 500 and gateway_error otherwise, writes one log
\* row with hasError = true and the same finishReason, and stores nothing in
\* the response cache.
C24_UnaryUpstreamError ==
    (hpc = "returned" /\ ~stream /\ upstreamStatus # 0) =>
        /\ response = "500"
        /\ errorType = (IF upstreamStatus >= 500 THEN "upstream_error"
                        ELSE "gateway_error")
        /\ insertLogCalls = 1
        /\ logRow.hasError
        /\ logRow.finishReason = errorType
        /\ cache.writes = 0

C24_Witness ==
    /\ hpc = "returned"
    /\ ~stream
    /\ upstreamStatus = 500
    /\ cache.enabled
    /\ errorType = "upstream_error"

\* C25: when upstream answers a streaming request with a non-2xx status the
\* client receives exactly one `error` event followed by exactly one `done`
\* event and no chunk, and one failure log row (hasError = true, streamed =
\* true) is written.
C25_StreamUpstreamError ==
    (hpc = "returned" /\ stream /\ upstreamStatus # 0) =>
        /\ sse = <<"error", "done">>
        /\ insertLogCalls = 1
        /\ logRow.written
        /\ logRow.hasError
        /\ logRow.streamed

C25_Witness ==
    /\ hpc = "returned"
    /\ stream
    /\ upstreamStatus = 429
    /\ sse = <<"error", "done">>
    /\ logRow.finishReason = "gateway_error"

(***************************************************************************)
(* C26: the order of the usage chunk and `[DONE]`.                         *)
(***************************************************************************)
\* C26: in a streaming response the synthetic chunk with the complete usage
\* object is written before the `[DONE]` event, never after it, for the
\* openai-family, anthropic and google parsers.
C26_UsageChunkBeforeDone ==
    \A i \in 1..Len(sse) : \A j \in 1..Len(sse) :
        (i < j /\ sse[i] = "done") => sse[j] # "usage"

(***************************************************************************)
(* C27 - C30: startup recovery, persist errors, unparseable messages and   *)
(* the credit updates of a batch.                                          *)
(***************************************************************************)
\* startWorker has run its recovery and no pass has claimed anything since
Started == wpc = "idle" /\ lastOutcome \in {"startup", "startupFailed"}

\* C27: once startWorker has begun, every message that was in the processing
\* queue at startup is back in the main queue before the first pass claims a
\* batch: no message stays in the processing queue across a restart.
C27_ProcessingQueueEmptyAfterStartup ==
    Started => procQ = <<>>

C29_UnparseableNeverReturns ==
    [][\A m \in Range(messages) :
          (~Parseable(m) /\ m \notin Range(mainQ)) => m \notin Range(mainQ')]_vars

\* the rows of organization o in the claimed batch with cached=false whose
\* project mode is not api-keys
DueRows(o) ==
    {m \in Range(messages) :
        Parseable(m) /\ MsgOrg(m) = o /\ ~MsgCached(m) /\ MsgMode(m) # "api-keys"}

RECURSIVE CostOf(_)
\* the sum of cost over a set of rows, in no particular order
CostOf(rows) ==
    IF rows = {} THEN 0
    ELSE LET m == CHOOSE x \in rows : TRUE
         IN MsgCost(m) + CostOf(rows \ {m})

\* C30: after a successful pass each organization's credits have decreased
\* by exactly the sum of cost over the batch's rows of that organization with
\* cached=false and a project mode other than api-keys, whatever the order of
\* the rows; the pending updates name each organization at most once and only
\* organizations that have such a row.
C30_CreditsDecreaseBySum ==
    /\ (wpc = "idle" /\ lastOutcome = "ok") =>
           \A o \in OrgIds : credits[o] = creditsAtClaim[o] - CostOf(DueRows(o))
    /\ wpc = "credits" =>
           /\ \A i \in 1..Len(updates) : \A j \in 1..Len(updates) :
                  i # j => updates[i].org # updates[j].org
           /\ \A i \in 1..Len(updates) :
                  /\ DueRows(updates[i].org) # {}
                  /\ updates[i].total = CostOf(DueRows(updates[i].org))

\* C30 witness: a successful pass over a batch with two billable rows of one
\* organization and, for the other, only a cached row and an api-keys row:
\* the first was debited the sum, the second was not updated
C30_Witness ==
    /\ wpc = "idle"
    /\ lastOutcome = "ok"
    /\ \E o \in OrgIds : \E p \in OrgIds :
          /\ Cardinality(DueRows(o)) >= 2
          /\ credits[o] = creditsAtClaim[o] - CostOf(DueRows(o))
          /\ credits[o] < creditsAtClaim[o]
          /\ DueRows(p) = {}
          /\ credits[p] = creditsAtClaim[p]
          /\ \E m \in Range(messages) : MsgOrg(m) = p /\ MsgCached(m) /\ MsgCost(m) # 0
          /\ \E m \in Range(messages) : MsgOrg(m) = p /\ MsgMode(m) = "api-keys"

(***************************************************************************)
(* C31, C32, C40: the per-organization steps of processAutoTopUp.          *)
(***************************************************************************)
\* process p inserts its pending transaction in this step
Inserts(p) == tpc[p] = "pm" /\ tpc'[p] = "intent"

\* C31: processAutoTopUp creates no transaction (and so no payment intent)
\* for an organization whose most recent credit_topup transaction was created
\* within the last hour and is pending or failed.
C31_NoTopUpAfterRecentPendingOrFailed ==
    [][\A p \in Procs :
          Inserts(p) =>
              \A i \in MostRecent(Head(todo[p])) : ~BlocksTopUp(txs[i], now)]_vars

\* C32: a transaction whose payment intent was created with status succeeded
\* (or requires_action) is still pending after the loop handled it and is
\* never marked failed by the loop.
C32_AcceptedIntentNeverFailed ==
    \A i \in 1..Len(txs) :
        txs[i].intent \in AcceptedStatuses => txs[i].status # "failed"

\* process p is inside the for loop over the selected organizations
InLoop(p) == tpc[p] \in {"loop", "pm", "intent"}

\* C40: a process is about to create a payment intent only for the pending
\* transaction it has just inserted for the organization at hand; every
\* organization is selected once per pass, so it gets at most one intent; and
\* the loop is left only when no selected organization remains, whatever
\* exception one of them raised.
C40_IntentAfterInsertAndLoopGoesOn ==
    /\ [](\A p \in Procs :
            tpc[p] = "intent" =>
                /\ cur[p] \in 1..Len(txs)
                /\ txs[cur[p]].org = Head(todo[p])
                /\ txs[cur[p]].intent = "none"
                /\ txs[cur[p]].createdAt <= now)
    /\ [](\A p \in Procs :
            InLoop(p) =>
                \A i \in 1..Len(todo[p]) : \A j \in 1..Len(todo[p]) :
                    i # j => todo[p][i] # todo[p][j])
    /\ [][\A p \in Procs :
            /\ (InLoop(p) /\ todo'[p] # todo[p]) => todo'[p] = Tail(todo[p])
            /\ (InLoop(p) /\ ~InLoop(p)') => todo[p] = <<>>]_vars

\* C40 witness: the handling of the first selected organization threw, and
\* the process is creating the payment intent of the second one
C40_Witness ==
    \E p \in Procs :
        /\ threw[p]
        /\ tpc[p] = "intent"
        /\ todo[p] = <<"orgB">>
        /\ txs[cur[p]].org = "orgB"

(***************************************************************************)
(* Tool calls of an openai-family stream: the else branch of the           *)
(* accumulation in the streaming callback.                                 *)
(***************************************************************************)
MaxIndex == 1

MaxDeltas == 3

\* strings are sequences of characters; a field that is absent or "" is falsy
Fragments == {<<>>, <<"x">>, <<"y">>}

\* the entries of choices[0].delta.tool_calls an upstream chunk may carry
ToolCallDeltas ==
    [index : 0..MaxIndex, id : {"", "call_a", "call_b"}, type : {"", "function"},
     name : {"", "f"}, arguments : Fragments]

\* choices[0].delta.tool_calls of one chunk: one or two entries
ToolCallChunks(n) ==
    IF n = 1 THEN {<<d>> : d \in ToolCallDeltas}
    ELSE {<<d, e>> : d \in ToolCallDeltas, e \in ToolCallDeltas}

\* the placeholder pushed for an index not seen before
EmptyToolCall == [id |-> "", type |-> "function", name |-> "", arguments |-> <<>>]

RECURSIVE EnsureIndex(_, _)
\* while (fullToolCalls.length <= index) fullToolCalls.push({...})
EnsureIndex(calls, index) ==
    IF Len(calls) <= index THEN EnsureIndex(Append(calls, EmptyToolCall), index)
    ELSE calls

\* a plausible slip: the delta is added to the last tool call, as for anthropic
AccumulateIntoLast(calls, d) ==
    LET have == EnsureIndex(calls, 0)
    IN [have EXCEPT ![Len(have)] =
          [id |-> IF d.id # "" THEN d.id ELSE @.id,
           type |-> IF d.type # "" THEN d.type ELSE @.type,
           name |-> IF d.name # "" THEN d.name ELSE @.name,
           arguments |-> @.arguments \o d.arguments]]

\* one deltaToolCall of the for loop
Accumulate(calls, d) ==
    LET have == EnsureIndex(calls, d.index)
    IN [have EXCEPT ![d.index + 1] =
          [id |-> IF d.id # "" THEN d.id ELSE @.id,
           type |-> IF d.type # "" THEN d.type ELSE @.type,
           name |-> IF d.name # "" THEN d.name ELSE @.name,
           arguments |-> @.arguments \o d.arguments]]

RECURSIVE AccumulateChunk(_, _)
\* for (const deltaToolCall of toolCallsChunk)
AccumulateChunk(calls, chunk) ==
    IF chunk = <<>> THEN calls
    ELSE AccumulateChunk(Accumulate(calls, Head(chunk)), Tail(chunk))

InitTool ==
    /\ fullToolCalls = <<>>
    /\ deltas = <<>>

\* a chunk with tool_calls is read from upstream
ReceiveToolCalls ==
    /\ \E n \in 1..2 :
          /\ Len(deltas) + n <= MaxDeltas
          /\ \E chunk \in ToolCallChunks(n) :
                /\ fullToolCalls' = AccumulateChunk(fullToolCalls, chunk)
                /\ deltas' = deltas \o chunk
    /\ UNCHANGED nonToolVars

NextTool == ReceiveToolCalls

\* the deltas received for index i, in arrival order
DeltasOf(i) == SelectSeq(deltas, LAMBDA d : d.index = i)

RECURSIVE Concatenated(_)
Concatenated(ds) ==
    IF ds = <<>> THEN <<>> ELSE Head(ds).arguments \o Concatenated(Tail(ds))

RECURSIVE LastNonEmpty(_, _, _)
\* the last non-empty value of a field among ds, or the placeholder's value
LastNonEmpty(ds, field, none) ==
    IF ds = <<>> THEN none
    ELSE IF ds[Len(ds)][field] # "" THEN ds[Len(ds)][field]
    ELSE LastNonEmpty(SubSeq(ds, 1, Len(ds) - 1), field, none)

\* C33: after any sequence of chunks the tool call at position i has as
\* arguments the concatenation, in arrival order, of the fragments of the
\* deltas with index i and as id, type and name the last non-empty value
\* received for index i, whatever the interleaving of indices.
C33_ToolCallsAccumulatePerIndex ==
    /\ \A d \in Range(deltas) : d.index < Len(fullToolCalls)
    /\ \A i \in 0..MaxIndex :
          i < Len(fullToolCalls) =>
              /\ fullToolCalls[i + 1].arguments = Concatenated(DeltasOf(i))
              /\ fullToolCalls[i + 1].id = LastNonEmpty(DeltasOf(i), "id", "")
              /\ fullToolCalls[i + 1].type = LastNonEmpty(DeltasOf(i), "type", "function")
              /\ fullToolCalls[i + 1].name = LastNonEmpty(DeltasOf(i), "name", "")

\* C33 witness: fragments for index 0, then index 1, then index 0 again
C33_Witness ==
    /\ Len(deltas) = 3
    /\ deltas[1].index = 0 /\ deltas[2].index = 1 /\ deltas[3].index = 0
    /\ \A k \in 1..3 : deltas[k].arguments # <<>>
    /\ deltas[1].id = "call_a" /\ deltas[2].id = "call_b" /\ deltas[3].id = ""
    /\ fullToolCalls[1].arguments = deltas[1].arguments \o deltas[3].arguments
    /\ fullToolCalls[2].arguments = deltas[2].arguments
    /\ fullToolCalls[1].id = "call_a"

(***************************************************************************)
(* C34, C36: the buffer cap and the number of `[DONE]` events.             *)
(***************************************************************************)
\* C34: after the read loop dropped its buffer the connection stays open and
\* the stream still ends with `[DONE]` and one log row.
C34_DropStillEndsWithDone ==
    (StreamClosed /\ bufferDropped) =>
        /\ Len(sse) > 0
        /\ sse[Len(sse)] = "done"
        /\ insertLogCalls = 1

\* C36: in every streaming response the done event is written to the client
\* at most once.
C36_DoneAtMostOnce ==
    Cardinality({i \in 1..Len(sse) : sse[i] = "done"}) <= 1

(***************************************************************************)
(* C38: a cached response and the credit loop.                             *)
(***************************************************************************)
\* the request was answered from the cache
AnsweredFromCache == Returned /\ cache.entry /\ cache.reads = 1 /\ upstreamCalls = 0
                     /\ response = "json200"

\* C38: the log row written for a cached response has cached = true and cost
\* 0, and the test of the worker's credit loop skips such a row for every
\* project mode, so a cache hit never changes organization.credits.
C38_CacheHitNeverBilled ==
    /\ AnsweredFromCache => (logRow.written /\ logRow.cached)
    /\ (logRow.written /\ logRow.cached) =>
           /\ logRow.cost = 0
           /\ \A projectMode \in Modes :
                 ~BillableRow(logRow.cost, logRow.cached, projectMode)

\* C38 witness: a request answered from the cache, its row logged
C38_Witness ==
    /\ AnsweredFromCache
    /\ insertLogCalls = 1
    /\ logRow.cached
    /\ logRow.cost = 0

(***************************************************************************)
(* startWorker and stopWorker within one process.  The calls interleave    *)
(* at their awaits only; between two awaits a call runs alone.             *)
(***************************************************************************)
MaxStartCalls == 3

MaxStopCalls == 2

StartCalls == 1..MaxStartCalls

StopCalls == 1..MaxStopCalls

\* a startWorker call that got past the guard and has not reached its end
LoopActive(k) == startPc[k] \in {"recovery", "pass", "wait"}

InitLifecycle ==
    /\ isWorkerRunning = FALSE
    /\ shouldStop = FALSE
    /\ startPc = [k \in StartCalls |-> "notCalled"]
    /\ stopPc = [j \in StopCalls |-> "notCalled"]

\* a plausible slip: startWorker without the isWorkerRunning guard
CallStartWorkerUnguarded(k) ==
    /\ startPc[k] = "notCalled"
    /\ isWorkerRunning' = TRUE
    /\ shouldStop' = FALSE
    /\ startPc' = [startPc EXCEPT ![k] = "recovery"]
    /\ UNCHANGED stopPc
    /\ UNCHANGED nonLifecycleVars

\* startWorker: the flag is clear; set it, clear shouldStop, await the recovery
CallStartWorker(k) ==
    /\ startPc[k] = "notCalled"
    /\ ~isWorkerRunning
    /\ isWorkerRunning' = TRUE
    /\ shouldStop' = FALSE
    /\ startPc' = [startPc EXCEPT ![k] = "recovery"]
    /\ UNCHANGED stopPc
    /\ UNCHANGED nonLifecycleVars

\* a plausible slip: shouldStop is cleared before the guard is tested
StartWorkerAlreadyRunningClearsStop(k) ==
    /\ startPc[k] = "notCalled"
    /\ isWorkerRunning
    /\ shouldStop' = FALSE
    /\ startPc' = [startPc EXCEPT ![k] = "refused"]
    /\ UNCHANGED <<isWorkerRunning, stopPc>>
    /\ UNCHANGED nonLifecycleVars

\* startWorker: "Worker is already running", return
StartWorkerAlreadyRunning(k) ==
    /\ startPc[k] = "notCalled"
    /\ isWorkerRunning
    /\ startPc' = [startPc EXCEPT ![k] = "refused"]
    /\ UNCHANGED <<isWorkerRunning, shouldStop, stopPc>>
    /\ UNCHANGED nonLifecycleVars

\* the while test after the startup recovery or after a sleep or backoff:
\* shouldStop is clear, the next pass begins
BeginPass(k) ==
    /\ startPc[k] \in {"recovery", "wait"}
    /\ ~shouldStop
    /\ startPc' = [startPc EXCEPT ![k] = "pass"]
    /\ UNCHANGED <<isWorkerRunning, shouldStop, stopPc>>
    /\ UNCHANGED nonLifecycleVars

\* processLogQueue, processAutoTopUp and getQueueStats returned or threw:
\* with shouldStop clear the loop sleeps (1 s, or 5 s after an error)
EndPassAndWait(k) ==
    /\ startPc[k] = "pass"
    /\ ~shouldStop
    /\ startPc' = [startPc EXCEPT ![k] = "wait"]
    /\ UNCHANGED <<isWorkerRunning, shouldStop, stopPc>>
    /\ UNCHANGED nonLifecycleVars

\* the while test finds shouldStop set: isWorkerRunning = false, return
ExitLoop(k) ==
    /\ LoopActive(k)
    /\ shouldStop
    /\ isWorkerRunning' = FALSE
    /\ startPc' = [startPc EXCEPT ![k] = "stopped"]
    /\ UNCHANGED <<shouldStop, stopPc>>
    /\ UNCHANGED nonLifecycleVars

\* stopWorker: "Worker is not running", return
StopWorkerNotRunning(j) ==
    /\ stopPc[j] = "notCalled"
    /\ ~isWorkerRunning
    /\ stopPc' = [stopPc EXCEPT ![j] = "notRunning"]
    /\ UNCHANGED <<isWorkerRunning, shouldStop, startPc>>
    /\ UNCHANGED nonLifecycleVars

\* stopWorker: set shouldStop and start polling
CallStopWorker(j) ==
    /\ stopPc[j] = "notCalled"
    /\ isWorkerRunning
    /\ shouldStop' = TRUE
    /\ stopPc' = [stopPc EXCEPT ![j] = "polling"]
    /\ UNCHANGED <<isWorkerRunning, startPc>>
    /\ UNCHANGED nonLifecycleVars

\* the poll finds isWorkerRunning false
StopWorkerSeesExit(j) ==
    /\ stopPc[j] = "polling"
    /\ ~isWorkerRunning
    /\ stopPc' = [stopPc EXCEPT ![j] = "drained"]
    /\ UNCHANGED <<isWorkerRunning, shouldStop, startPc>>
    /\ UNCHANGED nonLifecycleVars

\* the poll finds maxWaitTime exceeded while isWorkerRunning is still true
StopWorkerTimesOut(j) ==
    /\ stopPc[j] = "polling"
    /\ isWorkerRunning
    /\ stopPc' = [stopPc EXCEPT ![j] = "timedOut"]
    /\ UNCHANGED <<isWorkerRunning, shouldStop, startPc>>
    /\ UNCHANGED nonLifecycleVars

LoopStep(k) ==
    \/ BeginPass(k)
    \/ EndPassAndWait(k)
    \/ ExitLoop(k)

PollStep(j) ==
    \/ StopWorkerSeesExit(j)
    \/ StopWorkerTimesOut(j)

NextLifecycle ==
    \/ \E k \in StartCalls :
          \/ CallStartWorker(k)
          \/ StartWorkerAlreadyRunning(k)
          \/ LoopStep(k)
    \/ \E j \in StopCalls :
          \/ StopWorkerNotRunning(j)
          \/ CallStopWorker(j)
          \/ PollStep(j)

\* every await of the loop returns, and the poll timer of stopWorker fires
FairLifecycle ==
    /\ \A k \in StartCalls : WF_vars(LoopStep(k))
    /\ \A j \in StopCalls : WF_vars(PollStep(j))

\* C35: once stopWorker has set shouldStop on a running worker, the loop
\* begins no pass with the flag set, it exits and clears isWorkerRunning,
\* stopWorker returns (drained or on its wait limit), and no startWorker call
\* clears shouldStop while the worker is still running.
C35_StopIsHonoured ==
    /\ (shouldStop /\ isWorkerRunning) ~> ~isWorkerRunning
    /\ \A j \in StopCalls :
          (stopPc[j] = "polling") ~> (stopPc[j] \in {"drained", "timedOut"})
    /\ [][(shouldStop /\ ~shouldStop') => ~isWorkerRunning]_vars
    /\ [][\A k \in StartCalls :
            (startPc[k] # "pass" /\ startPc'[k] = "pass") => ~shouldStop]_vars

\* C35 witness: stopWorker was called on a running worker, the loop exited
\* and stopWorker saw it
C35_Witness ==
    /\ ~isWorkerRunning
    /\ shouldStop
    /\ \E k \in StartCalls : startPc[k] = "stopped"
    /\ \E j \in StopCalls : stopPc[j] = "drained"

\* C39: at most one worker loop is active at any time, isWorkerRunning is set
\* while one is, and a startWorker call made while a loop is active returns
\* without starting a second one.
C39_AtMostOneLoop ==
    /\ [](Cardinality({k \in StartCalls : LoopActive(k)}) <= 1)
    /\ []((\E k \in StartCalls : LoopActive(k)) => isWorkerRunning)
    /\ [][\A k \in StartCalls :
            (/\ startPc[k] = "notCalled"
             /\ startPc'[k] # "notCalled"
             /\ \E other \in StartCalls : LoopActive(other))
            => startPc'[k] = "refused"]_vars

\* C39 witness: stopWorker returned on its wait limit while the loop was
\* still in a pass, and a startWorker call was refused
C39_Witness ==
    /\ \E j \in StopCalls : stopPc[j] = "timedOut"
    /\ \E k \in StartCalls : startPc[k] = "pass"
    /\ \E k \in StartCalls : startPc[k] = "refused"
    /\ shouldStop
    /\ isWorkerRunning

(***************************************************************************)
(* Two worker processes running processLogQueue on the same two queues.    *)
(***************************************************************************)
Workers == {"w1", "w2"}

InitPair ==
    /\ sharedMainQ = <<>>
    /\ sharedProcQ = <<>>
    /\ pushed = {}
    /\ workerPc = [w \in Workers |-> "idle"]
    /\ claimed = [w \in Workers |-> <<>>]
    /\ persisted = {}

\* a handler pushes a log message
PushMessage(m) ==
    /\ m \notin pushed
    /\ pushed' = pushed \cup {m}
    /\ sharedMainQ' = <<m>> \o sharedMainQ
    /\ UNCHANGED <<sharedProcQ, workerPc, claimed, persisted>>
    /\ UNCHANGED nonPairVars

\* moveToProcessingQueue(LOG_QUEUE, LOG_PROCESSING_QUEUE, 10)
ClaimShared(w) ==
    /\ workerPc[w] = "idle"
    /\ sharedMainQ # <<>>
    /\ claimed' = [claimed EXCEPT ![w] = Reverse(MovedPart(sharedMainQ, BATCH_SIZE))]
    /\ sharedProcQ' = MovedPart(sharedMainQ, BATCH_SIZE) \o sharedProcQ
    /\ sharedMainQ' = SubSeq(sharedMainQ, 1,
                             Len(sharedMainQ) - ClaimCount(sharedMainQ, BATCH_SIZE))
    /\ workerPc' = [workerPc EXCEPT ![w] = "persisting"]
    /\ UNCHANGED <<pushed, persisted>>
    /\ UNCHANGED nonPairVars

\* the insert and the credit updates succeeded:
\* removeFromProcessingQueue(LOG_PROCESSING_QUEUE, messages.length)
PersistAndRemove(w) ==
    /\ workerPc[w] = "persisting"
    /\ persisted' = persisted \cup Range(ValidMessages(claimed[w]))
    /\ sharedProcQ' = RemoveFromProcessingQueue(sharedProcQ, AckCount(claimed[w]))
    /\ workerPc' = [workerPc EXCEPT ![w] = "idle"]
    /\ claimed' = [claimed EXCEPT ![w] = <<>>]
    /\ UNCHANGED <<sharedMainQ, pushed>>
    /\ UNCHANGED nonPairVars

\* the insert threw: recoverProcessingQueue(LOG_PROCESSING_QUEUE, LOG_QUEUE)
FailAndRecover(w) ==
    /\ workerPc[w] = "persisting"
    /\ sharedMainQ' = RecoverInto(sharedProcQ, sharedMainQ)
    /\ sharedProcQ' = <<>>
    /\ workerPc' = [workerPc EXCEPT ![w] = "idle"]
    /\ claimed' = [claimed EXCEPT ![w] = <<>>]
    /\ UNCHANGED <<pushed, persisted>>
    /\ UNCHANGED nonPairVars

NextPair ==
    \/ \E m \in Msgs : PushMessage(m)
    \/ \E w \in Workers :
          \/ ClaimShared(w)
          \/ PersistAndRemove(w)
          \/ FailAndRecover(w)

\* C37: with two workers on the same queues, the removal by count and the
\* recovery of one worker touch only its own batch: while a worker is still
\* persisting its batch, every message of that batch is still in the
\* processing queue.
C37_OtherWorkersBatchUntouched ==
    \A w \in Workers :
        workerPc[w] = "persisting" => Range(claimed[w]) \subseteq Range(sharedProcQ)

(***************************************************************************)
(* Specifications.                                                         *)
(***************************************************************************)
NextWorker == WorkerStep

\* the worker alone, nothing being pushed while it runs
NextBacklog == WorkerPass

\* queues of distinct messages, at most MaxBatchLen long
RECURSIVE QueuesOf(_, _)
QueuesOf(ids, n) ==
    IF n = 0 THEN {<<>>}
    ELSE {<<>>} \cup {<<m>> \o q : m \in ids, q \in QueuesOf(ids, n - 1)}

StartQueues ==
    {q \in QueuesOf(1..MaxMsgId, MaxBatchLen) :
        \A i \in 1..Len(q) : \A j \in 1..Len(q) : i # j => q[i] # q[j]}

\* a worker that has started and finds messages waiting in LOG_QUEUE
InitBacklogWorker ==
    /\ mainQ \in StartQueues
    /\ procQ = <<>>
    /\ enqueued = Range(mainQ)
    /\ logRows = [m \in AllMsgs |-> 0]
    /\ credits = [o \in OrgIds |-> InitialCredits]
    /\ debited = [m \in AllMsgs |-> 0]
    /\ wpc = "idle"
    /\ messages = <<>>
    /\ updates = <<>>
    /\ lastOutcome = "startup"
    /\ faults = 0
    /\ uniqueRequestId \in BOOLEAN
    /\ conflictSeen = FALSE
    /\ creditsAtClaim = [o \in OrgIds |-> InitialCredits]

Init == InitWorker /\ InitTopUp /\ InitHandler /\ InitChunk /\ InitAdmission
        /\ InitFinish
        /\ InitTool
        /\ InitLifecycle
        /\ InitPair

\* the worker at rest, with one fixed schema
InitQuietWorker == Init /\ uniqueRequestId = FALSE

SpecWorker == Init /\ [][NextWorker]_vars

InitBacklog == InitBacklogWorker /\ InitTopUp /\ InitHandler /\ InitChunk
               /\ InitAdmission /\ InitFinish
        /\ InitTool
        /\ InitLifecycle
        /\ InitPair

SpecBacklog == InitBacklog /\ [][NextBacklog]_vars

SpecTopUp == InitQuietWorker /\ [][NextTopUp]_vars

SpecTopUpSingle == InitQuietWorker /\ [][NextTopUpSingle]_vars

SpecHandler == InitQuietWorker /\ [][NextHandler]_vars

SpecChunk == InitQuietWorker /\ [][NextChunk]_vars

SpecAdmission == InitQuietWorker /\ [][NextAdmission]_vars

SpecFinish == InitQuietWorker /\ [][NextFinish]_vars

SpecTool == InitQuietWorker /\ [][NextTool]_vars

SpecPair == InitQuietWorker /\ [][NextPair]_vars

SpecLifecycle == InitQuietWorker /\ [][NextLifecycle]_vars

SpecLifecycleLive == InitQuietWorker /\ [][NextLifecycle]_vars /\ FairLifecycle

====
